---- MODULE Spec2Model ----
(***************************************************************************)
(* Model of godwoken's challenge context builder                           *)
(* (crates/chain/src/challenge.rs).  One call of build_verify_context is   *)
(* a sequence of steps over the caller's DB transaction: the account state *)
(* at the prev-tx checkpoint is read, the target transaction is executed   *)
(* and applied, the post state is read, the DB transaction is rolled back, *)
(* the prev values are re-read, and a kv-state proof is compiled and       *)
(* verified.  build_revert_context is a second, independent state machine  *)
(* (SpecRevert) over the canonical block SMT and the reverted-block SMT.   *)
(*                                                                         *)
(* Hashes are modelled as injective constructors: the root of an SMT is    *)
(* its key/value mapping, a checkpoint is the pair <<root, count>>.        *)
(***************************************************************************)
EXTENDS Integers, Sequences, FiniteSets, TLC

\* ---------------------------------------------------------------- bounds
MaxId == 1              \* account ids are 0..MaxId
TxCount == 2            \* transactions of the target block
WithdrawalCount == 1    \* withdrawals of the target block
MaxStaged == 1          \* account writes the caller staged before a build
MaxBlocks == 3          \* canonical blocks 1..MaxBlocks can be reverted
MaxRevert == 2          \* blocks passed to one build_revert_context call
MaxNodes == 2           \* node keys of an OverlayStore are 1..MaxNodes
MaxOps == 3             \* operations on one OverlayStore
MaxCustodians == 3      \* live custodian cells of a chain
MaxHashes == 2          \* reverted block hashes of a submission
MaxCells == 2           \* cells of one source (inputs, outputs) of a transaction
MaxPool == 3            \* live payment cells of the lock
MaxNumber == 2          \* numbers of the L2 blocks handed to insert_to_sql are 0..MaxNumber
MaxCalls == 4           \* calls of insert_to_sql

\* ---------------------------------------------------------- basic values
NoVal == -1             \* "absent" in option-typed positions
MaxVal == MaxId + 1
Ids == 0..MaxId
Values == 0..MaxVal
Slots == 0..(TxCount - 1)       \* materialized prev-tx checkpoints
PrevBlockSlot == -1             \* the state the previous block ended in
AllSlots == Slots \cup {PrevBlockSlot}
BlockNumber == MaxId + 1
BlockHash == 1                  \* hash of the block the store holds
UnknownHash == 2                \* a hash the store holds no block for
ParentHash == 3                 \* hash of the canonical block before that block

ScriptHashKey(id) == 2 * id + 1
NonceKey(id) == 2 * id + 2
DataKey == 2 * MaxId + 3
SpareKey == 2 * MaxId + 4
Keys == 1..SpareKey

None == <<>>
Some(x) == <<x>>

\* H256::zero() reads as a missing leaf
Zero == 0

Blake2b(data) == <<"blake2b", data>>

\* gw_common::merkle_utils::calculate_state_checkpoint: H(root || count)
CalculateStateCheckpoint(root, count) == <<root, count>>

\* ----------------------------------------------------------- block data
\* transactions of the target block
Tx(i) == [from_id |-> i % (MaxId + 1),
          to_id |-> (i + 1) % (MaxId + 1),
          new_accounts |-> i % 2]

\* L2Transaction::witness_hash of transaction i of the target block
TxWitnessHash(i) == 10 + i

\* script hash of account id
AccountScriptHash(id) == id + 1

\* withdrawal requests of the target block
Withdrawal(j) ==
    [account_script_hash |-> AccountScriptHash((MaxId * (j + 1)) % (MaxId + 1)),
     witness_hash |-> 20 + j]

\* Vec::get(n) of a molecule vector (0-based), None when out of range
Get(list, n) == IF n + 1 \in DOMAIN list THEN Some(list[n + 1]) ELSE None

\* CheckPoint::new(block_number, SubState::PrevTxs | SubState::Tx(i) |
\* SubState::Block)
CheckPointNew(number, sub, idx) == [number |-> number, sub |-> sub, idx |-> idx]

\* the slot of the store a checkpoint of the target block names
Slot(cp) ==
    IF cp.sub = "Block" THEN PrevBlockSlot
    ELSE IF cp.sub = "PrevTxs" THEN 0 ELSE cp.idx + 1

\* ------------------------------------------------------------- executor
\* Generator::execute_transaction: deterministic in (state, tx)
ExecFails(view, tx) == view[DataKey] = MaxVal
ExecReads(tx) == {NonceKey(tx.from_id), NonceKey(tx.to_id), DataKey}
ExecWriteKeys(tx) == {NonceKey(tx.from_id), DataKey}
ExecWrites(view, tx) == [k \in ExecWriteKeys(tx) |-> (view[k] + 1) % (MaxVal + 1)]
ExecReturnData(view, tx) == view[DataKey]

\* the account state after tx, as the chain applied it
ApplyTx(st, tx) ==
    IF ExecFails(st.kv, tx) THEN st
    ELSE [kv |-> [k \in Keys |-> IF k \in ExecWriteKeys(tx)
                                 THEN ExecWrites(st.kv, tx)[k] ELSE st.kv[k]],
          count |-> st.count + tx.new_accounts]

RECURSIVE StateAfter(_, _)
StateAfter(genesis, n) ==
    IF n = 0 THEN genesis ELSE ApplyTx(StateAfter(genesis, n - 1), Tx(n - 1))

\* ------------------------------------------------------- DB transaction
EmptyStaged == [kv |-> [s \in AllSlots |-> [k \in Keys |-> NoVal]],
                count |-> [s \in AllSlots |-> NoVal],
                other |-> FALSE]

StagedSize(stg) ==
    Cardinality({sk \in Slots \X Keys : stg.kv[sk[1]][sk[2]] # NoVal})
    + Cardinality({s \in Slots : stg.count[s] # NoVal})

\* State::get_raw through the DB transaction: staged writes shadow the store
ViewOf(st, stg, s) ==
    [k \in Keys |-> IF stg.kv[s][k] # NoVal THEN stg.kv[s][k] ELSE st[s].kv[k]]

\* State::get_account_count through the DB transaction
CountOf(st, stg, s) ==
    IF stg.count[s] # NoVal THEN stg.count[s] ELSE st[s].count

\* StoreTransaction::rollback: every staged, uncommitted write is discarded
Rollback(stg) == EmptyStaged

\* StateExt::apply_run_result: update_raw per write, then set_account_count
ApplyRunResult(stg, s, writes, count) ==
    [stg EXCEPT !.kv[s] = [k \in Keys |-> IF k \in DOMAIN writes
                                          THEN writes[k] ELSE @[k]],
                !.count[s] = count]

\* --------------------------------------------------------------- tracker
\* StateTracker of the state tree: once enabled, every get_raw and every
\* update_raw records its key
NewTracker == [enabled |-> FALSE, keys |-> {}]
Touch(tr, ks) == IF tr.enabled THEN [tr EXCEPT !.keys = @ \cup ks] ELSE tr

\* CodeStore::get_script: the script stored under a script hash
GetScript(script_hash) == IF script_hash = Zero THEN NoVal ELSE script_hash

\* --------------------------------------------------------------- proofs
KeySet(keys) == {keys[i] : i \in DOMAIN keys}

\* SMT::merkle_proof(keys).compile(leaves): commits to every leaf of the
\* tree outside keys; the keys are sorted inside, so their order is not
\* part of the proof
MerkleProof(view, keys) ==
    [keys |-> KeySet(keys), rest |-> [k \in (DOMAIN view) \ KeySet(keys) |-> view[k]]]

LeafValue(leaves, k) ==
    LET i == CHOOSE i \in DOMAIN leaves : leaves[i][1] = k IN leaves[i][2]

\* CompiledMerkleProof::compute_root(leaves)
ComputeRoot(proof, leaves) ==
    [k \in proof.keys \cup DOMAIN proof.rest |->
        IF k \in proof.keys THEN LeafValue(leaves, k) ELSE proof.rest[k]]

\* keys.map(|k| (k, tree.get_raw(k))).collect()
\* a reading that leaves out the keys without a value
ToKvNonZero(keys, view) ==
    LET RECURSIVE Pairs(_)
        Pairs(q) == IF q = <<>> THEN <<>>
                    ELSE (IF view[Head(q)] = Zero THEN <<>>
                          ELSE <<<<Head(q), view[Head(q)]>>>>) \o Pairs(Tail(q))
    IN Pairs(keys)

ToKv(keys, view) == [i \in DOMAIN keys |-> <<keys[i], view[keys[i]]>>]

\* ------------------------------------------------ block and item proofs
\* StoreTransaction::get_block(block_hash)
GetBlockAnyHash(blk, block_hash) == Some(blk)

GetBlock(blk, block_hash) == IF block_hash = blk.hash THEN Some(blk) ELSE None

\* StoreTransaction::get_block_hash_by_number: the canonical chain holds
\* the block of the store and its parent
GetBlockHashByNumber(number) ==
    IF number = BlockNumber THEN Some(BlockHash)
    ELSE IF number = BlockNumber - 1 THEN Some(ParentHash)
    ELSE None

\* ChainView::new(&db, tip_block_hash)
ChainViewNew(tip_block_hash) == [tip_block_hash |-> tip_block_hash]

\* the block hash the chain view of the executor is anchored at
ChainViewAnchor(raw_block) == GetBlockHashByNumber(raw_block.number)

\* key space of the SMT over the items (transactions or withdrawals) of a
\* block: H256::from_u32(index); one key more than any block has items
ItemKeys == 0..(TxCount + WithdrawalCount)

\* tree.update(H256::from_u32(index), witness_hash) for every item
ItemTree(hashes) ==
    [k \in ItemKeys |-> IF k < Len(hashes) THEN hashes[k + 1] ELSE Zero]

TxHashes(blk) == [i \in 1..blk.tx_count |-> TxWitnessHash(i - 1)]
WithdrawalHashes(blk) == [i \in 1..blk.withdrawal_count |-> Withdrawal(i - 1).witness_hash]

SingleLeafProofUpToTarget(hashes, index) ==
    MerkleProof(ItemTree(SubSeq(hashes, 1, index + 1)), <<index>>)

\* tree.merkle_proof(vec![H256::from_u32(index)]).compile(leaves)
SingleLeafProof(hashes, index) == MerkleProof(ItemTree(hashes), <<index>>)

BuildTxProofOffByOne(blk, tx_index) ==
    IF tx_index > blk.tx_count THEN None
    ELSE Some(SingleLeafProof(TxHashes(blk), tx_index))

\* build_tx_proof: "tx not found in block" when no transaction has the index
BuildTxProof(blk, tx_index) ==
    IF tx_index >= blk.tx_count THEN None
    ELSE Some(SingleLeafProof(TxHashes(blk), tx_index))

\* the withdrawal proof of build_verify_withdrawal_witness: "withdrawal not
\* found in block" when no withdrawal has the index
BuildWithdrawalProof(blk, withdrawal_index) ==
    IF withdrawal_index >= blk.withdrawal_count THEN None
    ELSE Some(SingleLeafProof(WithdrawalHashes(blk), withdrawal_index))

WithdrawalCheckPointOfBlock(blk) == CheckPointNew(blk.number, "PrevTxs", 0)

\* the CheckPoint the withdrawer's script is read at
WithdrawalCheckPoint(blk) == CheckPointNew(blk.number - 1, "Block", 0)

\* CodeStore::get_script through a state view: the script of a script hash
\* some account of the view has
GetScriptAt(view, script_hash) ==
    IF \E id \in Ids : view[ScriptHashKey(id)] = script_hash
    THEN GetScript(script_hash) ELSE NoVal

\* ------------------------------------------------- build_tx_kv_witness
\* the local prev-tx CheckPoint and the block's prev-tx checkpoint
PrevTxCheckpointPostEntry(blk, tx_index) ==
    IF tx_index >= 1
    THEN [local |-> CheckPointNew(blk.number, "Tx", tx_index - 1),
          onchain |-> Get(blk.state_checkpoint_list,
                          blk.withdrawal_count + tx_index)]
    ELSE [local |-> CheckPointNew(blk.number, "PrevTxs", 0),
          onchain |-> Some(blk.prev_state_checkpoint)]

PrevTxCheckpoint(blk, tx_index) ==
    IF tx_index >= 1
    THEN [local |-> CheckPointNew(blk.number, "Tx", tx_index - 1),
          onchain |-> Get(blk.state_checkpoint_list,
                          blk.withdrawal_count + (tx_index - 1))]
    ELSE [local |-> CheckPointNew(blk.number, "PrevTxs", 0),
          onchain |-> Some(blk.prev_state_checkpoint)]

\* state_checkpoint_list.get(withdrawal_len + tx_index)
PostTxCheckpoint(blk, tx_index) ==
    Get(blk.state_checkpoint_list, blk.withdrawal_count + tx_index)

Ascending(S) ==
    CHOOSE q \in [1..Cardinality(S) -> S] :
        \A i, j \in 1..Cardinality(S) : i < j => q[i] < q[j]
Reverse(q) == [i \in DOMAIN q |-> q[Len(q) + 1 - i]]
Rotate(q) == [i \in DOMAIN q |-> q[(i % Len(q)) + 1]]

\* HashSet::into_iter().collect(): the iteration order of the touched-key
\* set is unspecified; three of its orders are drawn here
TouchedKeyVecs(S) == {Ascending(S), Reverse(Ascending(S)), Rotate(Ascending(S))}

\* assert_eq!(proof_checkpoint, block_prev_tx_checkpoint)
VerifyPrevProof(proof, prev_kv, prev_count, block_prev) ==
    CalculateStateCheckpoint(ComputeRoot(proof, prev_kv), prev_count) = block_prev

\* assert_eq!(proof_checkpoint, block_post_tx_checkpoint)
VerifyPostProof(proof, post_kv, post_count, block_post) ==
    CalculateStateCheckpoint(ComputeRoot(proof, post_kv), post_count) = block_post

CheckProofPostOnly(kind, bb) ==
    kind = "TxExecution" =>
        VerifyPostProof(bb.proof, bb.post_kv, bb.post_count, bb.block_post)

CheckProofSkipped(kind, bb) == TRUE

\* the "Check proof" block: the prev check for both kinds, the post check
\* for TxKvState::Execution only
CheckProof(kind, bb) ==
    /\ VerifyPrevProof(bb.proof, bb.prev_kv, bb.prev_count, bb.block_prev)
    /\ kind = "TxExecution" =>
          VerifyPostProof(bb.proof, bb.post_kv, bb.post_count, bb.block_post)

GetNonceUntracked(tr, account_id) == tr

\* tree.get_nonce(sender_id) through the tracked tree
GetNonce(tr, account_id) == Touch(tr, {NonceKey(account_id)})

ScriptErrorReceiverFirst(sender, receiver) ==
    IF receiver = NoVal THEN "receiver script not found"
    ELSE IF sender = NoVal THEN "sender script not found"
    ELSE "none"

\* the error of the two ok_or_else of the script lookups, the sender's first
ScriptError(sender, receiver) ==
    IF sender = NoVal THEN "sender script not found"
    ELSE IF receiver = NoVal THEN "receiver script not found"
    ELSE "none"

TrackRunWritesOnly(tr, reads, write_keys) == Touch(tr, write_keys)

\* execute_transaction reads through the tracked tree, apply_run_result
\* writes through it
TrackRun(tr, reads, write_keys) == Touch(Touch(tr, reads), write_keys)

VerifyContextPostCount(kind, index, bb) ==
    [kind |-> kind,
     index |-> index,
     account_count |-> bb.post_count,
     kv_state |-> bb.prev_kv,
     kv_state_proof |-> bb.proof,
     scripts |-> <<bb.sender_script, bb.receiver_script>>,
     return_data_hash |-> bb.return_data_hash,
     sender_script |-> bb.sender_script,
     receiver_script |-> bb.receiver_script]

VerifyContextPostKv(kind, index, bb) ==
    [kind |-> kind,
     index |-> index,
     account_count |-> bb.prev_count,
     kv_state |-> bb.post_kv,
     kv_state_proof |-> bb.proof,
     scripts |-> <<bb.sender_script, bb.receiver_script>>,
     return_data_hash |-> bb.return_data_hash,
     sender_script |-> bb.sender_script,
     receiver_script |-> bb.receiver_script]

\* TxKvWitness and the VerifyContext built from it
VerifyContext(kind, index, bb) ==
    [kind |-> kind,
     index |-> index,
     account_count |-> bb.prev_count,
     kv_state |-> bb.prev_kv,
     kv_state_proof |-> bb.proof,
     scripts |-> <<bb.sender_script, bb.receiver_script>>,
     return_data_hash |-> bb.return_data_hash,
     sender_script |-> bb.sender_script,
     receiver_script |-> bb.receiver_script]

NextPcReadBeforeRollback(step) ==
    CASE step = "select" -> "open"
      [] step = "open" -> "scripts"
      [] step = "scripts" -> "execute"
      [] step = "execute" -> "postcheck"
      [] step = "postcheck" -> "postread"
      [] step = "postread" -> "reread"
      [] step = "reread" -> "rollback"
      [] step = "rollback" -> "compile"
      [] step = "compile" -> "verify"
      [] step = "verify" -> "emit"
      [] step = "emit" -> "done"

\* the statement order of build_tx_kv_witness
NextPc(step) ==
    CASE step = "select" -> "open"
      [] step = "open" -> "scripts"
      [] step = "scripts" -> "execute"
      [] step = "execute" -> "postcheck"
      [] step = "postcheck" -> "postread"
      [] step = "postread" -> "rollback"
      [] step = "rollback" -> "reread"
      [] step = "reread" -> "compile"
      [] step = "compile" -> "verify"
      [] step = "verify" -> "emit"
      [] step = "emit" -> "done"

\* ------------------------------------------------ build_revert_context
\* H256::one()
One == 1

\* hash of a block reverted earlier, no longer on the canonical chain
ForkHash == 99

\* RawL2Block of canonical block n: hash() and smt_key()
RawBlock(n) == [number |-> n, hash |-> 100 + n, smt_key |-> 200 + n]

CanonicalBlocks == 1..MaxBlocks

\* keys of the canonical block SMT and of the reverted-block SMT
BlockSmtKeys == {RawBlock(n).smt_key : n \in 0..(MaxBlocks + 1)}
RevertedKeys == {ForkHash} \cup {RawBlock(n).hash : n \in CanonicalBlocks}

\* the canonical block SMT of a chain with blocks 0..tip
CanonicalBlockSmt(tip) ==
    [k \in BlockSmtKeys |-> IF k - 200 <= tip THEN RawBlock(k - 200).hash ELSE Zero]

NothingStaged == [k \in RevertedKeys |-> NoVal]

\* db.reverted_block_smt(): the tree read through the DB transaction
RevertedBlockSmt(r) ==
    [k \in RevertedKeys |-> IF r.staged[k] # NoVal THEN r.staged[k] ELSE r.reverted[k]]

BlockSmtOfReverted(r) == RevertedBlockSmt(r)

\* db.block_smt()
BlockSmt(r) == r.block_smt

\* reverted_blocks.iter().map(|rb| rb.raw()).collect()
RawBlocks(input) == [i \in DOMAIN input |-> RawBlock(input[i])]

\* build_block_proof
BuildBlockProof(r, raw_blocks) ==
    [block_hashes |-> [i \in DOMAIN raw_blocks |->
                         [number |-> raw_blocks[i].number, hash |-> raw_blocks[i].hash]],
     block_proof |-> MerkleProof(BlockSmt(r),
                                 [i \in DOMAIN raw_blocks |-> raw_blocks[i].smt_key])]

\* the closure to_key of build_revert_context
ToKey(rb) == rb.hash

MarkRevertedZero(stg, key) == [stg EXCEPT ![key] = Zero]

MarkRevertedNothing(stg, key) == stg

\* smt.update(key, H256::one()) through the DB transaction
MarkReverted(stg, key) == [stg EXCEPT ![key] = One]

\* RevertContext with its RevertWitness
RevertContext(root, raw_blocks, block_proof, reverted_block_proof) ==
    [post_reverted_block_root |-> root,
     reverted_blocks |-> raw_blocks,
     block_proof |-> block_proof,
     reverted_block_proof |-> reverted_block_proof]

\* -------------------------------------------------------- OverlayStore
NodeKeys == 1..MaxNodes
NodeValues == {1, 2}
NoNodes == [k \in NodeKeys |-> NoVal]

\* get_branch / get_leaf of the backing store S
StoreGet(nodes, k) == IF nodes[k] = NoVal THEN None ELSE Some(nodes[k])

\* OverlayStore::new
OverlayStoreNew(backing) ==
    [store |-> backing,
     branches_map |-> NoNodes,
     leaves_map |-> NoNodes,
     deleted_branches |-> {},
     deleted_leaves |-> {},
     touched_keys |-> {}]

ClearTouchedKeys(o) == [o EXCEPT !.touched_keys = {}]

GetBranch(o, node) ==
    IF node \in o.deleted_branches THEN None
    ELSE IF o.branches_map[node] # NoVal THEN Some(o.branches_map[node])
    ELSE StoreGet(o.store.branches, node)

GetLeafIgnoringDeleted(o, leaf_hash) ==
    IF o.leaves_map[leaf_hash] # NoVal THEN Some(o.leaves_map[leaf_hash])
    ELSE StoreGet(o.store.leaves, leaf_hash)

GetLeaf(o, leaf_hash) ==
    IF leaf_hash \in o.deleted_leaves THEN None
    ELSE IF o.leaves_map[leaf_hash] # NoVal THEN Some(o.leaves_map[leaf_hash])
    ELSE StoreGet(o.store.leaves, leaf_hash)

InsertBranchKeepsDeleted(o, node, branch) ==
    [o EXCEPT !.branches_map[node] = branch]

InsertBranch(o, node, branch) ==
    [o EXCEPT !.deleted_branches = @ \ {node},
              !.branches_map[node] = branch]

InsertLeafWriteThrough(o, leaf_hash, leaf) ==
    [o EXCEPT !.deleted_leaves = @ \ {leaf_hash},
              !.leaves_map[leaf_hash] = leaf,
              !.store.leaves[leaf_hash] = leaf,
              !.touched_keys = @ \cup {leaf_hash}]

InsertLeaf(o, leaf_hash, leaf) ==
    [o EXCEPT !.deleted_leaves = @ \ {leaf_hash},
              !.leaves_map[leaf_hash] = leaf,
              !.touched_keys = @ \cup {leaf_hash}]

RemoveBranch(o, node) ==
    [o EXCEPT !.deleted_branches = @ \cup {node},
              !.branches_map[node] = NoVal]

RemoveLeafUntracked(o, leaf_hash) ==
    [o EXCEPT !.deleted_leaves = @ \cup {leaf_hash},
              !.leaves_map[leaf_hash] = NoVal]

RemoveLeaf(o, leaf_hash) ==
    [o EXCEPT !.deleted_leaves = @ \cup {leaf_hash},
              !.leaves_map[leaf_hash] = NoVal,
              !.touched_keys = @ \cup {leaf_hash}]

\* ------------------------------------------------------ find_stake_cell
\* a result of the contract code: Ok(value) or Err(error)
Ok(value) == [ok |-> TRUE, value |-> value]
Err(error) == [ok |-> FALSE, error |-> error]

\* the cells a transaction can hold: lock is the rollup's stake lock or
\* another lock, args_ok says StakeLockArgsReader::verify accepts the lock
\* args, owner is their owner_lock_hash, type_ is the cell's type script
\* (none, the L1 SUDT script, another script), amount its SUDT amount
Cell(lock, args_ok, owner, type_, amount) ==
    [lock |-> lock, args_ok |-> args_ok, owner |-> owner, type_ |-> type_,
     amount |-> amount]

\* cells that carry another lock than the stake lock
OtherCells ==
    {Cell("other", TRUE, 1, "none", 0),
     Cell("other", TRUE, 1, "sudt", 1),
     Cell("other", TRUE, 1, "other", 0)}

CellKinds ==
    OtherCells \cup {
     Cell("stake", TRUE, 1, "none", 0),
     Cell("stake", TRUE, 2, "none", 0),
     Cell("stake", FALSE, 1, "none", 0),
     Cell("stake", TRUE, 1, "sudt", 1),
     Cell("stake", TRUE, 1, "sudt", 0),
     Cell("stake", TRUE, 1, "other", 0)}

\* load_cell_type_hash of the L1 SUDT type script
SudtScriptHash == 7

\* the cells of a source of the transaction tx
CellsOf(tx, source) == IF source = "Input" THEN tx.inputs ELSE tx.outputs

\* fetch_sudt_script_hash
FetchSudtScriptHash(tx, index, source) ==
    LET type_ == CellsOf(tx, source)[index + 1].type_ IN
    IF type_ = "none" THEN Ok(None)
    ELSE IF type_ = "sudt" THEN Ok(Some(SudtScriptHash))
    ELSE Err("SUDT")

\* fetch_capacity_and_sudt_value; load_cell_capacity fails beyond the last
\* cell of the source
FetchCapacityAndSudtValue(tx, index, source) ==
    IF index >= Len(CellsOf(tx, source)) THEN Err("IndexOutOfBound")
    ELSE LET hash == FetchSudtScriptHash(tx, index, source) IN
         IF ~hash.ok THEN hash
         ELSE IF hash.value # None
         THEN Ok([sudt_script_hash |-> hash.value[1],
                  amount |-> CellsOf(tx, source)[index + 1].amount,
                  source |-> source, index |-> index])
         ELSE Ok([sudt_script_hash |-> Zero, amount |-> 0,
                  source |-> source, index |-> index])

\* the closure of filter_map in find_stake_cell, for the cell at index of the
\* searched source: no item for a cell without the stake lock
StakeCellAt(tx, source, owner_lock_hash, index) ==
    LET lock == CellsOf(tx, source)[index + 1] IN
    IF lock.lock # "stake" THEN None
    ELSE IF ~lock.args_ok THEN Some(Err("Encoding"))
    ELSE IF owner_lock_hash # None /\ lock.owner # owner_lock_hash[1]
    THEN Some(Err("Stake"))
    ELSE LET value == FetchCapacityAndSudtValue(tx, index, "Input") IN
         IF ~value.ok THEN Some(value)
         ELSE IF value.value.sudt_script_hash # Zero \/ value.value.amount # 0
         THEN Some(Err("Stake"))
         ELSE Some(Ok([index |-> index, owner |-> lock.owner, value |-> value.value]))

\* the items filter_map yields for the cells index.. of the source
RECURSIVE FilterMap(_, _, _, _)
FilterMap(tx, source, owner_lock_hash, index) ==
    IF index >= Len(CellsOf(tx, source)) THEN <<>>
    ELSE StakeCellAt(tx, source, owner_lock_hash, index)
            \o FilterMap(tx, source, owner_lock_hash, index + 1)

\* Iterator::take(n)
Take(items, n) == SubSeq(items, 1, IF Len(items) < n THEN Len(items) ELSE n)

\* collect::<Result<Vec<_>, Error>>(): the first error, or all the values
Collect(items) ==
    IF \E i \in DOMAIN items : ~items[i].ok
    THEN items[CHOOSE i \in DOMAIN items :
                    ~items[i].ok /\ \A j \in 1..(i - 1) : items[j].ok]
    ELSE Ok([i \in DOMAIN items |-> items[i].value])

\* find_stake_cell
FindStakeCell(tx, source, owner_lock_hash) ==
    LET cells == Collect(Take(FilterMap(tx, source, owner_lock_hash, 0), 2)) IN
    IF ~cells.ok THEN cells
    ELSE IF Len(cells.value) > 1 THEN Err("Stake")
    ELSE IF cells.value = <<>> THEN Ok(None)
    ELSE Ok(Some(cells.value[Len(cells.value)]))

\* --------------------------------- find_challenge_cell and the collectors
\* the cells searched for a lock other than the stake lock
LockCells(lock) ==
    OtherCells \cup {
     Cell(lock, TRUE, 1, "none", 0),
     Cell(lock, FALSE, 1, "none", 0),
     Cell(lock, TRUE, 1, "sudt", 1),
     Cell(lock, TRUE, 1, "other", 0)}

\* a found cell: its index in the searched source and its value
FoundCell(index, value) == [index |-> index, value |-> value]

\* the closure of filter_map in find_challenge_cell
ChallengeCellAt(tx, source, index) ==
    LET lock == CellsOf(tx, source)[index + 1] IN
    IF lock.lock # "challenge" THEN None
    ELSE IF ~lock.args_ok THEN Some(Err("Encoding"))
    ELSE LET value == FetchCapacityAndSudtValue(tx, index, source) IN
         IF ~value.ok THEN Some(value)
         ELSE IF value.value.sudt_script_hash # Zero \/ value.value.amount # 0
         THEN None
         ELSE Some(Ok(FoundCell(index, value.value)))

\* the closure of filter_map in collect_withdrawal_locks
WithdrawalCellAt(tx, source, index) ==
    LET lock == CellsOf(tx, source)[index + 1] IN
    IF lock.lock # "withdrawal" THEN None
    ELSE IF ~lock.args_ok THEN Some(Err("Encoding"))
    ELSE LET value == FetchCapacityAndSudtValue(tx, index, "Output") IN
         IF ~value.ok THEN Some(value)
         ELSE Some(Ok(FoundCell(index, value.value)))

\* the closure of filter_map in collect_custodian_locks
CustodianCellAt(tx, source, index) ==
    LET lock == CellsOf(tx, source)[index + 1] IN
    IF lock.lock # "custodian" THEN None
    ELSE IF ~lock.args_ok THEN Some(Err("Encoding"))
    ELSE LET value == FetchCapacityAndSudtValue(tx, index, "Input") IN
         IF ~value.ok THEN Some(value)
         ELSE Some(Ok(FoundCell(index, value.value)))

\* the closure of filter_map in collect_deposition_locks
DepositionCellAt(tx, source, index) ==
    LET lock == CellsOf(tx, source)[index + 1] IN
    IF lock.lock # "deposition" THEN None
    ELSE IF ~lock.args_ok THEN Some(Err("Encoding"))
    ELSE LET value == FetchCapacityAndSudtValue(tx, index, "Input") IN
         IF ~value.ok THEN Some(value)
         ELSE Some(Ok(FoundCell(index, value.value)))

\* the closure of filter_map in collect_burn_cells: the lock args are not
\* verified
BurnCellAt(tx, source, index) ==
    LET lock == CellsOf(tx, source)[index + 1] IN
    IF lock.lock # "burn" THEN None
    ELSE LET value == FetchCapacityAndSudtValue(tx, index, "Input") IN
         IF ~value.ok THEN Some(value)
         ELSE Some(Ok(FoundCell(index, value.value)))

\* the lock a function searches for
LockOf(fn) ==
    CASE fn = "find_stake_cell" -> "stake"
      [] fn = "find_challenge_cell" -> "challenge"
      [] fn = "collect_withdrawal_locks" -> "withdrawal"
      [] fn = "collect_custodian_locks" -> "custodian"
      [] fn = "collect_deposition_locks" -> "deposition"
      [] fn = "collect_burn_cells" -> "burn"

\* the source a function passes to fetch_capacity_and_sudt_value when it
\* searches source
LoadedSource(fn, source) ==
    CASE fn = "find_challenge_cell" -> source
      [] fn = "collect_withdrawal_locks" -> "Output"
      [] OTHER -> "Input"

\* the items filter_map yields for the cells index.. of the source, with
\* the closure of the function fn
RECURSIVE FilterMapCells(_, _, _, _)
FilterMapCells(fn, tx, source, index) ==
    IF index >= Len(CellsOf(tx, source)) THEN <<>>
    ELSE (CASE fn = "find_challenge_cell" -> ChallengeCellAt(tx, source, index)
            [] fn = "collect_withdrawal_locks" -> WithdrawalCellAt(tx, source, index)
            [] fn = "collect_custodian_locks" -> CustodianCellAt(tx, source, index)
            [] fn = "collect_deposition_locks" -> DepositionCellAt(tx, source, index)
            [] fn = "collect_burn_cells" -> BurnCellAt(tx, source, index))
            \o FilterMapCells(fn, tx, source, index + 1)

\* find_challenge_cell
FindChallengeCell(tx, source) ==
    LET cells == Collect(Take(FilterMapCells("find_challenge_cell", tx, source, 0), 2)) IN
    IF ~cells.ok THEN cells
    ELSE IF Len(cells.value) > 1 THEN Err("Challenge")
    ELSE IF cells.value = <<>> THEN Ok(None)
    ELSE Ok(Some(cells.value[Len(cells.value)]))

\* collect_withdrawal_locks
CollectWithdrawalLocks(tx, source) ==
    Collect(FilterMapCells("collect_withdrawal_locks", tx, source, 0))

\* collect_custodian_locks
CollectCustodianLocks(tx, source) ==
    Collect(FilterMapCells("collect_custodian_locks", tx, source, 0))

\* collect_deposition_locks
CollectDepositionLocks(tx, source) ==
    Collect(FilterMapCells("collect_deposition_locks", tx, source, 0))

\* collect_burn_cells
CollectBurnCells(tx, source) ==
    Collect(FilterMapCells("collect_burn_cells", tx, source, 0))

\* ------------------------------------------------------------- genesis
\* the genesis configs: timestamp, rollup_type_hash,
\* meta_contract_validator_type_hash
GenesisConfigs ==
    [timestamp : {42, 43},
     rollup_type_hash : {42, 43},
     meta_contract_validator_type_hash : {1, 2}]

\* a script of hash type Type
Script(code_hash, args) ==
    [code_hash |-> code_hash, hash_type |-> "Type", args |-> args]

\* the zero root: the SMT without a leaf
ZeroRoot == {}

\* CheckPoint::from_genesis()
FromGenesis == CheckPointNew(0, "Genesis", 0)

\* an account state without accounts: the leaves of the account SMT as
\* <<key, value>> pairs, and the account count
NoAccounts == [kv |-> ZeroRoot, count |-> 0]

\* create_account_from_script: the next id gets the script's hash
CreateAccountFromScript(tree, script) ==
    [kv |-> tree.kv \cup {<<ScriptHashKey(tree.count), Blake2b(script)>>},
     count |-> tree.count + 1]

\* the reserved account of the meta contract, created first
MetaContractScript(config) ==
    Script(config.meta_contract_validator_type_hash, config.rollup_type_hash)

\* the genesis block over the account state tree of the genesis
GenesisBlock(config, prev, post) ==
    [number |-> 0,
     timestamp |-> config.timestamp,
     prev_state_checkpoint |-> CalculateStateCheckpoint(prev.kv, prev.count),
     post_account |-> [merkle_root |-> post.kv, count |-> post.count]]

\* a build of the genesis that commits to the state before the reserved
\* account is created
BuildGenesisCheckpointFirst(config) ==
    LET tree == CreateAccountFromScript(NoAccounts, MetaContractScript(config))
        genesis == GenesisBlock(config, NoAccounts, tree)
    IN  [genesis |-> genesis,
         tree |-> tree,
         block_smt |-> {<<RawBlock(0).smt_key, Blake2b(genesis)>>}]

\* the genesis built from a config over an empty store: the account state
\* with the reserved account, the genesis block that commits to it, and the
\* block SMT that holds the block
BuildGenesisFromStore(config) ==
    LET tree == CreateAccountFromScript(NoAccounts, MetaContractScript(config))
        genesis == GenesisBlock(config, tree, tree)
    IN  [genesis |-> genesis,
         tree |-> tree,
         block_smt |-> {<<RawBlock(0).smt_key, Blake2b(genesis)>>}]

\* build_genesis: the genesis block of the config, built over a store of
\* its own
BuildGenesis(config) == BuildGenesisFromStore(config).genesis

\* Store::open_tmp()
OpenTmp == [has_genesis |-> FALSE,
            block_smt_root |-> ZeroRoot,
            account_smt_root |-> ZeroRoot,
            state |-> [cp \in {FromGenesis} |-> NoAccounts]]

\* init_genesis: builds the genesis in the store and commits it
InitGenesis(db, config) ==
    LET built == BuildGenesisFromStore(config) IN
    [has_genesis |-> TRUE,
     block_smt_root |-> built.block_smt,
     account_smt_root |-> built.tree.kv,
     state |-> [cp \in {FromGenesis} |-> built.tree]]

\* ---------------------------------------------------------------- state
\* ------------------------------------------------------ deposit::revert
\* rollup_context.rollup_script_hash and the type hashes of the rollup config
RollupScriptHash == 42
DepositScriptTypeHash == 31
CustodianScriptTypeHash == 32

\* the lock of a custodian cell: the rollup script hash, then the
\* CustodianLockArgs (args_ok: CustodianLockArgs::from_slice accepts them)
CustodianLock(args_ok, deposit_block_hash, deposit_lock_args) ==
    Script(CustodianScriptTypeHash,
           [rollup |-> RollupScriptHash,
            args_ok |-> args_ok,
            deposit_block_hash |-> deposit_block_hash,
            deposit_lock_args |-> deposit_lock_args])

\* a live cell: its output (capacity, lock, type script) and its data
CellInfo(capacity, lock, type_, data) ==
    [output |-> [capacity |-> capacity, lock |-> lock, type_ |-> type_],
     data |-> data]

\* the custodian cells a chain can hold, of the blocks of hash 1 and 2
CustodianKinds ==
    {CellInfo(100, CustodianLock(TRUE, 1, 5), None, 0),
     CellInfo(200, CustodianLock(TRUE, 1, 6), Some(SudtScriptHash), 9),
     CellInfo(300, CustodianLock(TRUE, 2, 5), None, 0),
     CellInfo(400, CustodianLock(FALSE, 2, 5), None, 0)}

\* the live cells of a chain: cell i is at out point i
WithOutPoints(cells) == [i \in DOMAIN cells |-> cells[i] @@ [out_point |-> i]]

\* RPCClient::query_custodian_cells_by_block_hashes: the live custodian
\* cells deposited in one of the blocks
RECURSIVE QueryCustodianCellsByBlockHashes(_, _)
QueryCustodianCellsByBlockHashes(live, block_hashes) ==
    IF live = <<>> THEN <<>>
    ELSE (IF Head(live).output.lock.args.deposit_block_hash \in block_hashes
          THEN <<Head(live)>> ELSE <<>>)
            \o QueryCustodianCellsByBlockHashes(Tail(live), block_hashes)

\* the deposit lock of a reverted custodian cell
DepositLock(revert_custodian) ==
    Script(DepositScriptTypeHash,
           [rollup |-> RollupScriptHash,
            deposit_lock_args |-> revert_custodian.output.lock.args.deposit_lock_args])

\* an output built anew, with the capacity and the deposit lock only
DepositOutputBuiltAnew(revert_custodian) ==
    [capacity |-> revert_custodian.output.capacity,
     lock |-> DepositLock(revert_custodian),
     type_ |-> None]

\* the custodian's output with the lock replaced
DepositOutput(revert_custodian) ==
    [revert_custodian.output EXCEPT !.lock = DepositLock(revert_custodian)]

\* the InputCellInfo that spends the custodian cell
CustodianInput(revert_custodian) ==
    [input |-> [previous_output |-> revert_custodian.out_point],
     cell |-> revert_custodian]

\* the WitnessArgs with the UnlockCustodianViaRevertWitness in its lock
RevertCustodianWitnessArgs(revert_custodian) ==
    [lock |-> Some([deposit_lock_hash |-> Blake2b(DepositLock(revert_custodian))])]

\* deposit::revert
Revert(rollup_action, reverted_block_hashes, live, rpc_ok) ==
    IF rollup_action # "RollupSubmitBlock" THEN Ok(None)
    ELSE IF reverted_block_hashes = <<>> THEN Ok(None)
    ELSE IF ~rpc_ok THEN Err("rpc")
    ELSE LET cells == QueryCustodianCellsByBlockHashes(live, KeySet(reverted_block_hashes)) IN
         IF cells = <<>> THEN Ok(None)
         ELSE IF \E i \in DOMAIN cells : ~cells[i].output.lock.args.args_ok
         THEN Err("CustodianLockArgs")
         ELSE Ok(Some(
            [deps |-> IF \E i \in DOMAIN cells : cells[i].output.type_ # None
                      THEN <<"custodian_cell_lock_dep", "l1_sudt_type_dep">>
                      ELSE <<"custodian_cell_lock_dep">>,
             inputs |-> [i \in DOMAIN cells |-> CustodianInput(cells[i])],
             witness_args |-> [i \in DOMAIN cells |-> RevertCustodianWitnessArgs(cells[i])],
             outputs |-> [i \in DOMAIN cells |-> <<DepositOutput(cells[i]), cells[i].data>>]]))

\* ---------------------------------------------------------- fill_tx_fee
\* Capacities and fees are counted in one unit, scaled so that the numbers
\* stay small: the change cell's capacity is 61 units, the smallest capacity
\* a cell with a lock can have, and one input or output adds one unit of fee.
CHANGE_CELL_CAPACITY == 61

\* sizes of the parts of a transaction
BaseSize == 1
InputSize == 1
OutputSize == 1

\* u64::saturating_sub
SaturatingSub(x, y) == IF x >= y THEN x - y ELSE 0

RECURSIVE SumCapacity(_)
SumCapacity(cells) ==
    IF cells = <<>> THEN 0 ELSE Head(cells).capacity + SumCapacity(Tail(cells))

\* TransactionSkeleton::tx_in_block_size of a transaction that can be sealed
TxInBlockSize(skeleton) ==
    BaseSize + InputSize * Len(skeleton.inputs) + OutputSize * Len(skeleton.outputs)

\* calculate_required_tx_fee
CalculateRequiredTxFee(tx_size) == tx_size

\* TransactionSkeleton::taken_outpoints
TakenOutpoints(skeleton) ==
    {skeleton.inputs[i].out_point : i \in DOMAIN skeleton.inputs}

\* the change cell of capacity
ChangeCell(capacity) == [capacity |-> capacity, lock |-> "lock_script"]

\* outputs_mut().push((change_cell, Default::default()))
PushChange(skeleton, capacity) ==
    [skeleton EXCEPT !.outputs = Append(@, ChangeCell(capacity))]

\* estimate_tx_size_with_change: the skeleton it leaves; the pop follows the
\* ? of tx_in_block_size
EstimateSkeleton(skeleton, size_ok) ==
    IF size_ok THEN skeleton ELSE PushChange(skeleton, CHANGE_CELL_CAPACITY)

\* estimate_tx_size_with_change: the size it returns
EstimateTxSizeWithChange(skeleton, size_ok) ==
    IF size_ok THEN Ok(TxInBlockSize(PushChange(skeleton, CHANGE_CELL_CAPACITY)))
    ELSE Err("tx_in_block_size")

\* max_paid_fee + CHANGE_CELL_CAPACITY - tx_fee in u64: None when it underflows
ChangeCapacity(max_paid_fee, tx_fee) ==
    IF max_paid_fee + CHANGE_CELL_CAPACITY >= tx_fee
    THEN Some(max_paid_fee + CHANGE_CELL_CAPACITY - tx_fee)
    ELSE None

\* inputs_mut().extend(cells..): the cells in the order of their out points
RECURSIVE CellSeq(_)
CellSeq(cells) ==
    IF cells = {} THEN <<>>
    ELSE LET c == CHOOSE c \in cells : \A d \in cells : c.out_point <= d.out_point
         IN <<c>> \o CellSeq(cells \ {c})

ExtendInputs(skeleton, cells) ==
    [skeleton EXCEPT !.inputs = @ \o CellSeq(cells)]

\* RPCClient::query_payment_cells: the answers the indexer can give, each a
\* set of live cells of the lock none of which is in taken_outpoints
QueryPaymentCells(pool, required_fee, taken_outpoints) ==
    SUBSET {c \in pool : c.out_point \notin taken_outpoints}

\* TransactionSkeleton::calculate_fee: input capacity minus output capacity;
\* when the outputs hold more than the inputs it is an error or 0
CalculateFee(skeleton, saturates) ==
    LET inputs_capacity == SumCapacity(skeleton.inputs)
        outputs_capacity == SumCapacity(skeleton.outputs)
    IN IF inputs_capacity >= outputs_capacity THEN Ok(inputs_capacity - outputs_capacity)
       ELSE IF saturates THEN Ok(0) ELSE Err("calculate_fee")

\* the whole paid fee is taken as payable, the change cell not set aside
MaxPaidFeeWithoutChange(paid_fee) == paid_fee

\* calculate_fee()?.saturating_sub(CHANGE_CELL_CAPACITY)
MaxPaidFee(paid_fee) == SaturatingSub(paid_fee, CHANGE_CELL_CAPACITY)

\* one estimate of the fee: estimate_tx_size_with_change, then calculate_fee.
\* The skeleton it leaves, and the fee and what the inputs can pay, or the error
Settle(skeleton, saturates, size_ok) ==
    LET tx_size == EstimateTxSizeWithChange(skeleton, size_ok)
        paid_fee == CalculateFee(skeleton, saturates)
        left == EstimateSkeleton(skeleton, size_ok)
    IN IF ~tx_size.ok THEN [skeleton |-> left, result |-> tx_size]
       ELSE IF ~paid_fee.ok THEN [skeleton |-> left, result |-> paid_fee]
       ELSE [skeleton |-> left,
             result |-> Ok([tx_fee |-> CalculateRequiredTxFee(tx_size.value),
                            max_paid_fee |-> MaxPaidFee(paid_fee.value)])]

\* -------------------------------------------------------- insert_to_sql
\* the rows filter_web3_transactions makes of the L2 block of a number: the
\* transactions of the block, each with its logs
FilterWeb3Transactions(number) ==
    [i \in 1..((number % 2) + 1) |->
        [tx |-> [block_number |-> number, transaction_index |-> i - 1],
         logs |-> [j \in 1..(i - 1) |->
                     [block_number |-> number, transaction_index |-> i - 1,
                      log_index |-> j - 1]]]]

\* the tables of the database, and the rows of a transaction not yet committed
EmptyTables == [blocks |-> <<>>, transactions |-> <<>>, logs |-> <<>>]

\* the rows of a table
RowSet(rows) == {rows[i] : i \in DOMAIN rows}

\* SELECT number FROM blocks ORDER BY number DESC LIMIT 1
SelectHighestNumber(tables) ==
    IF tables.blocks = <<>> THEN None
    ELSE Some(CHOOSE n \in RowSet(tables.blocks) : \A m \in RowSet(tables.blocks) : m <= n)

\* row.is_none() || Decimal::from(number) == row.unwrap().0 + Decimal::from(1)
IsNext(row, number) == row = None \/ number = row[1] + 1

\* build_web3_block: the parent of a block that is not block 0 is looked up
\* in the blocks table, and the lookup panics when it finds no row
BuildWeb3Block(tables, number) ==
    IF number = 0 \/ (number - 1) \in RowSet(tables.blocks)
    THEN Ok([number |-> number])
    ELSE Err("No parent hash found!")

\* the statement is executed on the pool and takes effect at once
ExecuteOnPool(tables, tx, table, rows) ==
    [tables |-> [tables EXCEPT ![table] = @ \o rows], tx |-> tx]

\* .execute(&mut tx): the rows are written in the transaction
ExecuteIn(tables, tx, table, rows) ==
    [tables |-> tables, tx |-> [tx EXCEPT ![table] = @ \o rows]]

\* the rows of the first done transactions of the block and of their logs
RECURSIVE LogRows(_, _)
LogRows(txs, done) ==
    IF done = 0 THEN <<>> ELSE LogRows(txs, done - 1) \o txs[done].logs

InsertTransactions(tables, tx, txs, done) ==
    LET t == ExecuteIn(tables, tx, "transactions", [i \in 1..done |-> txs[i].tx])
    IN ExecuteIn(t.tables, t.tx, "logs", LogRows(txs, done))

\* tx.commit(): the rows of the transaction become rows of the tables
Commit(tables, tx) == [t \in DOMAIN tables |-> tables[t] \o tx[t]]

\* pg, fee, dp, gn, sc, ov and rv are None in the specifications of the other
\* components
VARIABLES
    pg,         \* the tables of the web3 database and the callers of insert_to_sql
    fee,        \* the skeleton fill_tx_fee fills, the payment cells, its position
    dp,         \* the arguments of deposit::revert, the live cells, what it returned
    gn,         \* a genesis config, the store init_genesis fills, the genesis build_genesis built
    sc,         \* a transaction's cells and what find_stake_cell returned for them
    cancel,     \* where the build stood when its cancellation was requested
    ov,         \* an OverlayStore over its backing store, and what was done to it
    rv,         \* build_revert_context: the block SMTs and the build's position
    store,      \* committed account state per prev-tx checkpoint
    block,      \* the target block as stored
    staged,     \* uncommitted writes of the caller's DB transaction
    pc,         \* position of the build
    target,     \* [kind, index] of the ChallengeTarget
    b,          \* locals of build_tx_kv_witness
    result,     \* "none" | "ok" | "err" | "panic"
    witness,    \* the returned VerifyContext, None unless result = "ok"
    h           \* history: what the build did, for the properties

vars == <<pg, fee, dp, gn, sc, cancel, ov, rv, store, block, staged, pc, target, b, result, witness, h>>

\* the variables outside the challenge build, the revert build, the overlay
challengeVars == <<store, block, staged, pc, target, b, result, witness, h>>
notChallenge == <<pg, fee, dp, gn, sc, cancel, ov, rv>>
notRevert == <<pg, fee, dp, gn, sc, cancel, ov, challengeVars>>
notOverlay == <<pg, fee, dp, gn, sc, cancel, rv, challengeVars>>
notCells == <<pg, fee, dp, gn, cancel, ov, rv, challengeVars>>
notGenesis == <<pg, fee, dp, sc, cancel, ov, rv, challengeVars>>
notDeposit == <<pg, fee, gn, sc, cancel, ov, rv, challengeVars>>
notFee == <<pg, dp, gn, sc, cancel, ov, rv, challengeVars>>
notSql == <<fee, dp, gn, sc, cancel, ov, rv, challengeVars>>

Kinds == {"TxExecution", "TxSignature", "Withdrawal"}

InitLocals ==
    [local_cp |-> CheckPointNew(0, "PrevTxs", 0),
     block_prev |-> None,
     prev_count |-> 0,
     tracker |-> NewTracker,
     sender_script |-> NoVal,
     receiver_script |-> NoVal,
     return_data_hash |-> None,
     chain_view |-> None,
     block_post |-> None,
     touched_keys |-> <<>>,
     post_count |-> 0,
     post_kv |-> <<>>,
     prev_kv |-> <<>>,
     proof |-> [keys |-> {}, rest |-> <<>>],
     tx_proof |-> [keys |-> {}, rest |-> <<>>]]

InitHistory ==
    [log |-> <<>>,                  \* steps taken by the running build
     start_view |-> <<>>,           \* get_raw per slot when the build started
     start_staged |-> EmptyStaged,  \* staged writes when the build started
     opened |-> {},                 \* CheckPoints a state view was opened at
     exec_reads |-> {},             \* keys the executor read
     exec_writes |-> {},            \* keys the run result wrote
     applied |-> FALSE,             \* apply_run_result ran
     rolled_back |-> FALSE,         \* db.rollback() ran
     mismatch |-> "none",           \* the equality check that failed
     error |-> "none",              \* the script lookup that failed
     first |-> None]                \* an earlier build of the same target

\* the genesis account state of the store
Genesis(missing, d0) ==
    [kv |-> [k \in Keys |->
                IF k = DataKey THEN d0
                ELSE IF \E id \in Ids : k = ScriptHashKey(id) /\ id \notin missing
                     THEN (k + 1) \div 2
                     ELSE Zero],
     count |-> MaxId + 1]

\* the state the block producer started from: the store's, or one that
\* differs from it in one field
Variant(g, v) ==
    CASE v = "same" -> g
      [] v = "data" -> [g EXCEPT !.kv[DataKey] = (@ + 1) % MaxVal]
      [] v = "spare" -> [g EXCEPT !.kv[SpareKey] = 1]
      [] v = "count" -> [g EXCEPT !.count = @ + 1]

ChainCheckpoint(g, n) ==
    CalculateStateCheckpoint(StateAfter(g, n).kv, StateAfter(g, n).count)

ListLen == WithdrawalCount + TxCount

\* a block over the chain from g; entry bad (0 = prev_state_checkpoint,
\* i = list entry i) is wrong, ListLen + 1 drops the last list entry
BuildBlock(g, bad) ==
    LET entry(i) == IF i <= WithdrawalCount THEN ChainCheckpoint(g, 0)
                    ELSE ChainCheckpoint(g, i - WithdrawalCount)
        wrong(c) == <<c[1], c[2] + 2>>
        full == [i \in 1..ListLen |-> IF i = bad THEN wrong(entry(i)) ELSE entry(i)]
    IN [hash |-> BlockHash,
        number |-> BlockNumber,
        tx_count |-> TxCount,
        withdrawal_count |-> WithdrawalCount,
        prev_state_checkpoint |->
            IF bad = 0 THEN wrong(ChainCheckpoint(g, 0)) ELSE ChainCheckpoint(g, 0),
        state_checkpoint_list |->
            IF bad = ListLen + 1 THEN SubSeq(full, 1, ListLen - 1) ELSE full]

\* a block of the same chain without transactions
EmptyBlock(g) ==
    [BuildBlock(g, NoVal) EXCEPT
        !.tx_count = 0,
        !.state_checkpoint_list = SubSeq(@, 1, WithdrawalCount)]

\* the state the previous block ended in: the deposits of the target block
\* have created account MaxId, or every account existed before
PrevBlockState(g, accounts) ==
    IF accounts = "deposited"
    THEN [g EXCEPT !.kv[ScriptHashKey(MaxId)] = Zero, !.count = @ - 1]
    ELSE g

\* the block SMTs of the store, no revert build running; prior are the keys
\* the reverted-block SMT already holds
RevertIdle(tip, prior) ==
    [pc |-> "idle",
     block_smt |-> CanonicalBlockSmt(tip),
     reverted |-> [k \in RevertedKeys |-> IF k \in prior THEN One ELSE Zero],
     staged |-> NothingStaged,
     input |-> <<>>,
     i |-> 0,
     block_hashes |-> <<>>,
     block_proof |-> [keys |-> {}, rest |-> <<>>],
     context |-> None,
     start |-> [block_smt |-> <<>>, reverted |-> <<>>]]

\* an OverlayStore just created over a backing store that holds the given
\* branch and leaf keys
OverlayIdle(branch_keys, leaf_keys) ==
    LET backing == [branches |-> [k \in NodeKeys |-> IF k \in branch_keys THEN 1 ELSE NoVal],
                    leaves |-> [k \in NodeKeys |-> IF k \in leaf_keys THEN 1 ELSE NoVal]]
    IN [o |-> OverlayStoreNew(backing),
        ops |-> 0,
        last |-> None,
        start_store |-> backing,
        leaf_keys |-> {},
        ref |-> backing]

Init ==
    \E accounts \in {"all", "missing", "none", "deposited"}, d0 \in {0, MaxVal - 1},
       v \in {"same", "data", "spare", "count", "empty"},
       bad \in {NoVal, 0, WithdrawalCount + 1, ListLen, ListLen + 1} :
        LET g == Genesis(CASE accounts = "missing" -> {0}
                            [] accounts = "none" -> Ids
                            [] OTHER -> {}, d0) IN
        /\ v = "empty" => (d0 = 0 /\ bad = NoVal)
        /\ accounts \in {"none", "deposited"} => (d0 = 0 /\ v = "same" /\ bad = NoVal)
        /\ rv = None
        /\ ov = None
        /\ cancel = "none"
        /\ sc = None
        /\ gn = None
        /\ dp = None
        /\ fee = None
        /\ pg = None
        /\ store = [s \in AllSlots |-> IF s = PrevBlockSlot
                                       THEN PrevBlockState(g, accounts)
                                       ELSE StateAfter(g, s)]
        /\ block = IF v = "empty" THEN EmptyBlock(g)
                   ELSE BuildBlock(Variant(g, v), bad)
        /\ staged = EmptyStaged
        /\ pc = "idle"
        /\ target = [kind |-> "Withdrawal", index |-> 0, block_hash |-> BlockHash]
        /\ b = InitLocals
        /\ result = "none"
        /\ witness = None
        /\ h = InitHistory

\* ------------------------------------------------------------ the caller
\* the caller stages an account write in its DB transaction
StageWrite ==
    /\ pc = "idle"
    /\ StagedSize(staged) < MaxStaged
    /\ \E s \in Slots, k \in {DataKey, SpareKey}, v \in {Zero, 1} :
          staged' = [staged EXCEPT !.kv[s][k] = v]
    /\ UNCHANGED <<notChallenge, store, block, pc, target, b, result, witness, h>>

\* the caller stages a new account count
StageCount ==
    /\ pc = "idle"
    /\ StagedSize(staged) < MaxStaged
    /\ \E s \in Slots : staged' = [staged EXCEPT !.count[s] = store[s].count + 1]
    /\ UNCHANGED <<notChallenge, store, block, pc, target, b, result, witness, h>>

\* the caller stages a write outside the account state
StageOther ==
    /\ pc = "idle"
    /\ ~staged.other
    /\ staged' = [staged EXCEPT !.other = TRUE]
    /\ UNCHANGED <<notChallenge, store, block, pc, target, b, result, witness, h>>

StartHistory(first) ==
    [InitHistory EXCEPT !.start_view = [s \in Slots |-> ViewOf(store, staged, s)],
                        !.start_staged = staged,
                        !.first = first]

\* the build leaves with an error or a panic
Leave(how) ==
    /\ pc' = "done"
    /\ result' = how
    /\ witness' = None

\* build_verify_context for the two transaction kinds: get_block and
\* build_tx_proof
Call ==
    /\ pc = "idle"
    /\ \E kind \in {"TxExecution", "TxSignature"}, idx \in 0..TxCount,
          hash \in {BlockHash, UnknownHash} :
          /\ hash = UnknownHash => idx = 0
          /\ target' = [kind |-> kind, index |-> idx, block_hash |-> hash]
          /\ LET blk == GetBlock(block, hash)
                 proof == IF blk = None THEN None ELSE BuildTxProof(blk[1], idx)
             IN IF proof = None
                THEN Leave("err") /\ b' = InitLocals
                ELSE /\ b' = [InitLocals EXCEPT !.tx_proof = proof[1]]
                     /\ pc' = "select" /\ result' = "none" /\ witness' = None
    /\ h' = StartHistory(None)
    /\ UNCHANGED <<notChallenge, store, block, staged>>

\* build_verify_withdrawal_witness
CallWithdrawal ==
    /\ pc = "idle"
    /\ \E idx \in 0..WithdrawalCount, hash \in {BlockHash, UnknownHash} :
          /\ hash = UnknownHash => idx = 0
          /\ target' = [kind |-> "Withdrawal", index |-> idx, block_hash |-> hash]
          /\ LET blk == GetBlock(block, hash)
                 proof == IF blk = None THEN None
                          ELSE BuildWithdrawalProof(blk[1], idx)
             IN IF proof = None
                THEN Leave("err") /\ h' = StartHistory(None)
                ELSE LET cp == WithdrawalCheckPoint(blk[1])
                         sender == GetScriptAt(ViewOf(store, staged, Slot(cp)),
                                               Withdrawal(idx).account_script_hash)
                     IN /\ h' = [StartHistory(None) EXCEPT !.opened = {cp}]
                        /\ IF sender = NoVal
                           THEN Leave("err")
                           ELSE /\ pc' = "done"
                                /\ result' = "ok"
                                /\ witness' = Some([kind |-> "Withdrawal",
                                                    index |-> idx,
                                                    withdrawal_proof |-> proof[1],
                                                    sender_script |-> sender,
                                                    receiver_script |-> None])
    /\ b' = InitLocals
    /\ UNCHANGED <<notChallenge, store, block, staged>>

\* lines 303-331
SelectCheckpoint ==
    /\ pc = "select"
    /\ LET r == PrevTxCheckpoint(block, target.index) IN
         IF r.onchain = None
         THEN Leave("err") /\ UNCHANGED b
         ELSE /\ b' = [b EXCEPT !.local_cp = r.local, !.block_prev = r.onchain[1]]
              /\ pc' = NextPc("select")
              /\ UNCHANGED <<result, witness>>
    /\ UNCHANGED <<notChallenge, store, block, staged, target, h>>

\* lines 333-342
OpenPrev ==
    /\ pc = "open"
    /\ LET s == Slot(b.local_cp)
           count == CountOf(store, staged, s)
           local == CalculateStateCheckpoint(ViewOf(store, staged, s), count)
       IN IF local # b.block_prev
          THEN /\ Leave("panic")
               /\ h' = [h EXCEPT !.mismatch = "prev", !.opened = @ \cup {b.local_cp}]
               /\ UNCHANGED b
          ELSE /\ b' = [b EXCEPT !.prev_count = count]
               /\ h' = [h EXCEPT !.log = Append(@, "prev-read"),
                                 !.opened = @ \cup {b.local_cp}]
               /\ pc' = NextPc("open")
               /\ UNCHANGED <<result, witness>>
    /\ UNCHANGED <<notChallenge, store, block, staged, target>>

\* lines 344-360
ResolveScripts ==
    /\ pc = "scripts"
    /\ LET view == ViewOf(store, staged, Slot(b.local_cp))
           tx == Tx(target.index)
           t0 == [enabled |-> TRUE, keys |-> {}]
           t1 == Touch(t0, {ScriptHashKey(tx.from_id)})
           sender == GetScript(view[ScriptHashKey(tx.from_id)])
           t2 == Touch(t1, {ScriptHashKey(tx.to_id)})
           receiver == GetScript(view[ScriptHashKey(tx.to_id)])
           t3 == GetNonce(t2, tx.from_id)
           error == ScriptError(sender, receiver)
       IN IF error # "none"
          THEN Leave("err") /\ h' = [h EXCEPT !.error = error] /\ UNCHANGED b
          ELSE /\ b' = [b EXCEPT !.tracker = t3,
                                  !.sender_script = sender,
                                  !.receiver_script = receiver]
               /\ pc' = NextPc("scripts")
               /\ UNCHANGED <<result, witness, h>>
    /\ UNCHANGED <<notChallenge, store, block, staged, target>>

\* lines 362-387
Execute ==
    /\ pc = "execute"
    /\ LET s == Slot(b.local_cp)
           view == ViewOf(store, staged, s)
           tx == Tx(target.index)
       IN IF target.kind = "TxExecution"
          THEN IF ChainViewAnchor(block) = None \/ ExecFails(view, tx)
               THEN Leave("err") /\ UNCHANGED <<b, staged, h>>
               ELSE /\ b' = [b EXCEPT
                               !.chain_view = Some(ChainViewNew(ChainViewAnchor(block)[1])),
                               !.tracker = TrackRun(@, ExecReads(tx), ExecWriteKeys(tx)),
                               !.return_data_hash = Some(Blake2b(ExecReturnData(view, tx)))]
                    /\ staged' = ApplyRunResult(staged, s, ExecWrites(view, tx),
                                                CountOf(store, staged, s) + tx.new_accounts)
                    /\ h' = [h EXCEPT !.log = Append(@, "execute"),
                                      !.exec_reads = ExecReads(tx),
                                      !.exec_writes = ExecWriteKeys(tx),
                                      !.applied = TRUE]
                    /\ pc' = NextPc("execute")
                    /\ UNCHANGED <<result, witness>>
          ELSE /\ pc' = NextPc("execute")
               /\ UNCHANGED <<b, staged, h, result, witness>>
    /\ UNCHANGED <<notChallenge, store, block, target>>

\* lines 390-400
PostCheck ==
    /\ pc = "postcheck"
    /\ LET s == Slot(b.local_cp)
           e == PostTxCheckpoint(block, target.index)
           local == CalculateStateCheckpoint(ViewOf(store, staged, s),
                                             CountOf(store, staged, s))
       IN IF e = None
          THEN Leave("err") /\ UNCHANGED <<b, h>>
          ELSE IF target.kind = "TxExecution" /\ local # e[1]
          THEN Leave("panic") /\ h' = [h EXCEPT !.mismatch = "post"] /\ UNCHANGED b
          ELSE /\ b' = [b EXCEPT !.block_post = e[1]]
               /\ h' = [h EXCEPT !.log = IF target.kind = "TxExecution"
                                         THEN Append(@, "post-check") ELSE @]
               /\ pc' = NextPc("postcheck")
               /\ UNCHANGED <<result, witness>>
    /\ UNCHANGED <<notChallenge, store, block, staged, target>>

\* lines 402-416
PostRead ==
    /\ pc = "postread"
    /\ LET s == Slot(b.local_cp) IN
         \E q \in TouchedKeyVecs(b.tracker.keys) :
            b' = [b EXCEPT !.touched_keys = q,
                           !.post_count = CountOf(store, staged, s),
                           !.post_kv = ToKv(q, ViewOf(store, staged, s))]
    /\ h' = [h EXCEPT !.log = Append(@, "post-read")]
    /\ pc' = NextPc("postread")
    /\ UNCHANGED <<notChallenge, store, block, staged, target, result, witness>>

\* lines 418-420
RollbackStep ==
    /\ pc = "rollback"
    /\ staged' = Rollback(staged)
    /\ h' = [h EXCEPT !.log = Append(@, "rollback"), !.rolled_back = TRUE]
    /\ pc' = NextPc("rollback")
    /\ UNCHANGED <<notChallenge, store, block, target, b, result, witness>>

\* lines 422-430
ReRead ==
    /\ pc = "reread"
    /\ b' = [b EXCEPT !.prev_kv =
                ToKv(b.touched_keys, ViewOf(store, staged, Slot(b.local_cp)))]
    /\ h' = [h EXCEPT !.log = Append(@, "prev-re-read")]
    /\ pc' = NextPc("reread")
    /\ UNCHANGED <<notChallenge, store, block, staged, target, result, witness>>

\* lines 432-436
Compile ==
    /\ pc = "compile"
    /\ b' = [b EXCEPT !.proof =
                MerkleProof(ViewOf(store, staged, Slot(b.local_cp)), b.touched_keys)]
    /\ h' = [h EXCEPT !.log = Append(@, "proof-compile")]
    /\ pc' = NextPc("compile")
    /\ UNCHANGED <<notChallenge, store, block, staged, target, result, witness>>

\* lines 439-450
Verify ==
    /\ pc = "verify"
    /\ IF ~CheckProof(target.kind, b)
       THEN Leave("panic") /\ h' = [h EXCEPT !.mismatch = "proof"]
       ELSE /\ h' = [h EXCEPT !.log = Append(@, "proof-verify")]
            /\ pc' = NextPc("verify")
            /\ UNCHANGED <<result, witness>>
    /\ UNCHANGED <<notChallenge, store, block, staged, target, b>>

\* lines 452-467 and the witness builders of lines 195-213, 234-258
Emit ==
    /\ pc = "emit"
    /\ witness' = Some(VerifyContext(target.kind, target.index, b)
                       @@ [tx_proof |-> b.tx_proof])
    /\ result' = "ok"
    /\ pc' = NextPc("emit")
    /\ UNCHANGED <<notChallenge, store, block, staged, target, b, h>>

\* the caller takes the result
Return ==
    /\ pc = "done"
    /\ pc' = "idle"
    /\ result' = "none"
    /\ witness' = None
    /\ b' = InitLocals
    /\ h' = InitHistory
    /\ UNCHANGED <<notChallenge, store, block, staged, target>>

\* the caller keeps the witness and builds the same target once more
Again ==
    /\ pc = "done"
    /\ result = "ok"
    /\ target.kind # "Withdrawal"
    /\ h.first = None
    /\ h' = StartHistory(Some([target |-> target,
                               view |-> h.start_view,
                               witness |-> witness[1]]))
    /\ pc' = "select"
    /\ result' = "none"
    /\ witness' = None
    /\ b' = [InitLocals EXCEPT !.tx_proof = b.tx_proof]
    /\ UNCHANGED <<notChallenge, store, block, staged, target>>

Next ==
    \/ StageWrite \/ StageCount \/ StageOther
    \/ Call \/ CallWithdrawal
    \/ SelectCheckpoint \/ OpenPrev \/ ResolveScripts \/ Execute \/ PostCheck
    \/ PostRead \/ RollbackStep \/ ReRead \/ Compile \/ Verify \/ Emit
    \/ Return \/ Again

Spec == Init /\ [][Next]_vars

\* ------------------------------------------------- the revert builder
\* the store of a revert build: a chain of blocks 0..tip, a reverted-block
\* SMT holding some keys already, and no challenge build running
ChallengeIdle ==
    /\ store = [s \in AllSlots |-> StateAfter(Genesis({}, 0), IF s < 0 THEN 0 ELSE s)]
    /\ block = BuildBlock(Genesis({}, 0), NoVal)
    /\ staged = EmptyStaged
    /\ pc = "idle"
    /\ target = [kind |-> "Withdrawal", index |-> 0, block_hash |-> BlockHash]
    /\ b = InitLocals
    /\ result = "none"
    /\ witness = None
    /\ h = InitHistory

InitRevert ==
    /\ \E tip \in {MaxBlocks, MaxBlocks + 1},
          prior \in SUBSET {ForkHash, RawBlock(1).hash} :
          rv = RevertIdle(tip, prior)
    /\ ov = None
    /\ cancel = "none"
    /\ sc = None
    /\ gn = None
    /\ dp = None
    /\ fee = None
    /\ pg = None
    /\ ChallengeIdle

RevertInputs ==
    UNION {[1..n -> CanonicalBlocks] : n \in 0..MaxRevert}

\* lines 77-85: the raw blocks and build_block_proof
RevertCall ==
    /\ rv.pc = "idle"
    /\ \E input \in RevertInputs :
          LET bp == BuildBlockProof(rv, RawBlocks(input)) IN
          rv' = [rv EXCEPT !.pc = "update",
                           !.input = input,
                           !.i = 1,
                           !.block_hashes = bp.block_hashes,
                           !.block_proof = bp.block_proof,
                           !.context = None,
                           !.start = [block_smt |-> rv.block_smt,
                                      reverted |-> RevertedBlockSmt(rv)]]
    /\ UNCHANGED notRevert

\* lines 93-96: one turn of the loop over the keys
RevertUpdate ==
    /\ rv.pc = "update"
    /\ rv.i <= Len(rv.input)
    /\ rv' = [rv EXCEPT !.staged = MarkReverted(@, ToKey(RawBlock(rv.input[rv.i]))),
                        !.i = @ + 1]
    /\ UNCHANGED notRevert

\* lines 98-119: the root, the proof and the RevertContext
RevertProve ==
    /\ rv.pc = "update"
    /\ rv.i > Len(rv.input)
    /\ LET raw_blocks == RawBlocks(rv.input)
           smt == RevertedBlockSmt(rv)
           keys == [i \in DOMAIN raw_blocks |-> ToKey(raw_blocks[i])]
       IN rv' = [rv EXCEPT !.pc = "done",
                           !.context = Some(RevertContext(smt, raw_blocks, rv.block_proof,
                                                          MerkleProof(smt, keys)))]
    /\ UNCHANGED notRevert

\* line 76: the caller rolls the DB transaction back
RevertRollback ==
    /\ rv.pc = "done"
    /\ rv' = [rv EXCEPT !.pc = "rolledback", !.staged = NothingStaged]
    /\ UNCHANGED notRevert

\* the caller takes the RevertContext
RevertReturn ==
    /\ rv.pc = "rolledback"
    /\ rv' = [rv EXCEPT !.pc = "idle", !.input = <<>>, !.i = 0,
                        !.block_hashes = <<>>,
                        !.block_proof = [keys |-> {}, rest |-> <<>>],
                        !.context = None,
                        !.start = [block_smt |-> <<>>, reverted |-> <<>>]]
    /\ UNCHANGED notRevert

NextRevert ==
    \/ RevertCall \/ RevertUpdate \/ RevertProve \/ RevertRollback \/ RevertReturn

SpecRevert == InitRevert /\ [][NextRevert]_vars

\* ------------------------------------------------------- cancellation
InitCancel ==
    /\ cancel = "none"
    /\ sc = None
    /\ gn = None
    /\ dp = None
    /\ fee = None
    /\ pg = None
    /\ ov = None
    /\ rv = None
    /\ ChallengeIdle

\* the caller's environment asks for cancellation at a component boundary:
\* before the witness construction starts, or after the executor returned
RequestCancel ==
    /\ cancel = "none"
    /\ \/ pc = "idle"
       \/ pc = "postcheck" /\ target.kind = "TxExecution"
    /\ cancel' = pc
    /\ UNCHANGED <<pg, fee, dp, gn, sc, ov, rv, challengeVars>>

NextCancel ==
    \/ RequestCancel
    \/ StageWrite \/ StageCount \/ StageOther
    \/ Call \/ CallWithdrawal
    \/ SelectCheckpoint \/ OpenPrev \/ ResolveScripts \/ Execute \/ PostCheck
    \/ PostRead \/ RollbackStep \/ ReRead \/ Compile \/ Verify \/ Emit
    \/ Return \/ Again

SpecCancel == InitCancel /\ [][NextCancel]_vars

\* ------------------------------------------------- the contract's cells
CellLists(kinds) == UNION {[1..n -> kinds] : n \in 0..MaxCells}

CellFunctions ==
    {"find_stake_cell", "find_challenge_cell", "collect_withdrawal_locks",
     "collect_custodian_locks", "collect_deposition_locks", "collect_burn_cells"}

\* the cells a function can find in the source it searches
SearchedKinds(fn) ==
    IF fn = "find_stake_cell" THEN CellKinds ELSE LockCells(LockOf(fn))

\* the searched source holds any cells; the other source is empty unless
\* the function loads values from it, and then only the type script and
\* the amount of its cells are read
InitCells ==
    /\ \E fn \in CellFunctions, source \in {"Input", "Output"},
          owner_lock_hash \in {None, Some(1)} :
       \E searched \in CellLists(SearchedKinds(fn)),
          other \in (IF LoadedSource(fn, source) = source THEN {<<>>}
                     ELSE CellLists(OtherCells)) :
          /\ fn # "find_stake_cell" => owner_lock_hash = None
          /\ sc = [fn |-> fn,
                   tx |-> IF source = "Input"
                          THEN [inputs |-> searched, outputs |-> other]
                          ELSE [inputs |-> other, outputs |-> searched],
                   source |-> source,
                   owner_lock_hash |-> owner_lock_hash,
                   result |-> None]
    /\ gn = None
    /\ dp = None
    /\ fee = None
    /\ pg = None
    /\ cancel = "none"
    /\ ov = None
    /\ rv = None
    /\ ChallengeIdle

\* the function fn is called and returns
Returned(fn, value) ==
    /\ sc.fn = fn
    /\ sc.result = None
    /\ sc' = [sc EXCEPT !.result = Some(value)]
    /\ UNCHANGED notCells

FindStakeCellStep ==
    Returned("find_stake_cell", FindStakeCell(sc.tx, sc.source, sc.owner_lock_hash))

FindChallengeCellStep ==
    Returned("find_challenge_cell", FindChallengeCell(sc.tx, sc.source))

CollectWithdrawalLocksStep ==
    Returned("collect_withdrawal_locks", CollectWithdrawalLocks(sc.tx, sc.source))

CollectCustodianLocksStep ==
    Returned("collect_custodian_locks", CollectCustodianLocks(sc.tx, sc.source))

CollectDepositionLocksStep ==
    Returned("collect_deposition_locks", CollectDepositionLocks(sc.tx, sc.source))

CollectBurnCellsStep ==
    Returned("collect_burn_cells", CollectBurnCells(sc.tx, sc.source))

NextCells ==
    \/ FindStakeCellStep \/ FindChallengeCellStep \/ CollectWithdrawalLocksStep
    \/ CollectCustodianLocksStep \/ CollectDepositionLocksStep \/ CollectBurnCellsStep

SpecCells == InitCells /\ [][NextCells]_vars

\* ------------------------------------------------------------ the genesis
InitGenesisTest ==
    /\ \E config \in GenesisConfigs :
          gn = [config |-> config, store |-> OpenTmp, genesis |-> None]
    /\ dp = None
    /\ fee = None
    /\ pg = None
    /\ sc = None
    /\ cancel = "none"
    /\ ov = None
    /\ rv = None
    /\ ChallengeIdle

\* build_genesis(&config), of the store's config or of another one
BuildGenesisStep ==
    /\ gn.genesis = None
    /\ \E config \in GenesisConfigs :
          gn' = [gn EXCEPT !.genesis =
                    Some([config |-> config, genesis |-> BuildGenesis(config)])]
    /\ UNCHANGED notGenesis

\* init_genesis(&store, &config, ..)
InitGenesisStep ==
    /\ ~gn.store.has_genesis
    /\ gn' = [gn EXCEPT !.store = InitGenesis(gn.store, gn.config)]
    /\ UNCHANGED notGenesis

NextGenesis == BuildGenesisStep \/ InitGenesisStep

SpecGenesis == InitGenesisTest /\ [][NextGenesis]_vars

\* ------------------------------------------------- the reverted deposits
RollupActions == {"RollupSubmitBlock", "RollupEnterChallenge"}

HashLists == UNION {[1..n -> {1, 2}] : n \in 0..MaxHashes}

InitDeposit ==
    /\ \E rollup_action \in RollupActions, hashes \in HashLists, rpc_ok \in BOOLEAN,
          live \in UNION {[1..n -> CustodianKinds] : n \in 0..MaxCustodians} :
          dp = [rollup_action |-> rollup_action,
                reverted_block_hashes |-> hashes,
                live |-> WithOutPoints(live),
                rpc_ok |-> rpc_ok,
                result |-> None]
    /\ fee = None
    /\ pg = None
    /\ gn = None
    /\ sc = None
    /\ cancel = "none"
    /\ ov = None
    /\ rv = None
    /\ ChallengeIdle

RevertStep ==
    /\ dp.result = None
    /\ dp' = [dp EXCEPT !.result =
                Some(Revert(dp.rollup_action, dp.reverted_block_hashes, dp.live,
                            dp.rpc_ok))]
    /\ UNCHANGED notDeposit

NextDeposit == RevertStep

SpecDeposit == InitDeposit /\ [][NextDeposit]_vars

\* ------------------------------------------------------- the fee payment
\* capacities of the payment cells the lock owns, of the inputs and of the
\* outputs the skeleton starts with
PaymentCapacities == {61, 100}
InputCapacities == {61, 130, 200}
OutputCapacities == {100, 150}

\* the live cells of the lock, one per out point
Pools == {{[out_point |-> i, capacity |-> caps[i]] : i \in 1..MaxPool} :
            caps \in [1..MaxPool -> PaymentCapacities]}

\* the skeleton starts with no input, an input of another lock or a payment cell
StartInputs(pool) ==
    {<<>>} \cup {<<[out_point |-> 0, capacity |-> c]>> : c \in InputCapacities}
           \cup {<<c>> : c \in {d \in pool : d.out_point = 1}}

StartOutputs ==
    {<<>>} \cup {<<[capacity |-> c, lock |-> "other"]>> : c \in OutputCapacities}

InitFee ==
    /\ \E pool \in Pools, saturates \in BOOLEAN, outputs \in StartOutputs :
       \E inputs \in StartInputs(pool) :
          fee = [pc |-> "start",
                 skeleton |-> [inputs |-> inputs, outputs |-> outputs],
                 outputs0 |-> outputs,
                 pool |-> pool,
                 saturates |-> saturates,
                 required_fee |-> 0,
                 rounds |-> 0,
                 provided |-> TRUE,
                 underflow |-> FALSE,
                 error |-> "none"]
    /\ pg = None
    /\ dp = None
    /\ gn = None
    /\ sc = None
    /\ cancel = "none"
    /\ ov = None
    /\ rv = None
    /\ ChallengeIdle

\* fill_tx_fee returns the error, the skeleton as the estimate left it
FeeErr(f, skeleton, error) ==
    [f EXCEPT !.pc = "err", !.skeleton = skeleton, !.error = error]

\* the change cell is pushed and fill_tx_fee returns Ok
FeeOk(f, skeleton, change_capacity) ==
    [f EXCEPT !.pc = "ok", !.skeleton = PushChange(skeleton, change_capacity),
              !.required_fee = 0]

\* fill_tx_fee up to the loop
FillStart(f, size_ok) ==
    LET s == Settle(f.skeleton, f.saturates, size_ok)
        tx_fee == s.result.value.tx_fee
        max_paid_fee == s.result.value.max_paid_fee
        required_fee == SaturatingSub(tx_fee, max_paid_fee)
    IN IF ~s.result.ok THEN FeeErr(f, s.skeleton, s.result.error)
       ELSE IF required_fee = 0
       THEN FeeOk(f, s.skeleton, ChangeCapacity(max_paid_fee, tx_fee)[1])
       ELSE [f EXCEPT !.pc = "loop",
                      !.required_fee = required_fee + CHANGE_CELL_CAPACITY]

\* one round of the loop with the cells the query returned, and the push of
\* the change cell when it was the last round
FillRound(f, cells, size_ok) ==
    LET skeleton == ExtendInputs(f.skeleton, cells)
        s == Settle(skeleton, f.saturates, size_ok)
        tx_fee == s.result.value.tx_fee
        max_paid_fee == s.result.value.max_paid_fee
        required_fee == SaturatingSub(tx_fee, max_paid_fee)
        change_capacity == ChangeCapacity(max_paid_fee, tx_fee)
        g == [f EXCEPT !.rounds = @ + 1,
                       !.provided = @ /\ cells # {}
                                      /\ SumCapacity(CellSeq(cells)) >= f.required_fee]
    IN IF cells = {} THEN [g EXCEPT !.pc = "panic", !.error = "need cells to pay fee"]
       ELSE IF ~s.result.ok THEN FeeErr(g, s.skeleton, s.result.error)
       ELSE IF change_capacity = None
       THEN [g EXCEPT !.pc = "panic", !.skeleton = skeleton, !.underflow = TRUE,
                      !.error = "attempt to subtract with overflow"]
       ELSE IF required_fee = 0 THEN FeeOk(g, s.skeleton, change_capacity[1])
       ELSE [g EXCEPT !.skeleton = s.skeleton, !.required_fee = required_fee]

\* the query is told of no taken out point
PaymentQueryNoneTaken(f) == QueryPaymentCells(f.pool, f.required_fee, {})

\* the answers to the query of a round
PaymentQuery(f) ==
    QueryPaymentCells(f.pool, f.required_fee, TakenOutpoints(f.skeleton))

FillStartStep ==
    /\ fee.pc = "start"
    /\ \E size_ok \in BOOLEAN : fee' = FillStart(fee, size_ok)
    /\ UNCHANGED notFee

FillRoundStep ==
    /\ fee.pc = "loop"
    /\ \E cells \in PaymentQuery(fee), size_ok \in BOOLEAN :
          fee' = FillRound(fee, cells, size_ok)
    /\ UNCHANGED notFee

\* taken_outpoints()? or query_payment_cells(..).await? is an error
QueryFailsStep ==
    /\ fee.pc = "loop"
    /\ \E error \in {"taken_outpoints", "query_payment_cells"} :
          fee' = FeeErr(fee, fee.skeleton, error)
    /\ UNCHANGED notFee

NextFee == FillStartStep \/ FillRoundStep \/ QueryFailsStep

SpecFee == InitFee /\ [][NextFee]_vars

\* fill_tx_fee is awaited to its end, and the indexer answers every query
SpecFeeLive == SpecFee /\ WF_vars(NextFee)

\* --------------------------------------------------- the web3 database
\* a caller of insert_to_sql between two calls
IdleCaller ==
    [pc |-> "idle", number |-> 0, row |-> None, tx |-> None,
     before |-> EmptyTables, read_at |-> 0, insert_at |-> None]

\* the database is empty; the schema, which is not part of the crate, may or
\* may not keep the numbers of the blocks table unique
InitPg(callers) ==
    /\ \E unique \in BOOLEAN :
          pg = [tables |-> EmptyTables, unique |-> unique, calls |-> 0,
                callers |-> [c \in callers |-> IdleCaller]]
    /\ fee = None
    /\ dp = None
    /\ gn = None
    /\ sc = None
    /\ cancel = "none"
    /\ ov = None
    /\ rv = None
    /\ ChallengeIdle

\* the calls follow one another
InitSql == InitPg({1})

\* two callers at once
InitSqlConcurrent == InitPg({1, 2})

\* the caller c is at cl; the tables are as they were
AtCaller(c, cl) == [pg EXCEPT !.callers[c] = cl]

\* the call of c returns: its transaction, if it has one, is dropped
ReturnCall(c, pc_) == AtCaller(c, [pg.callers[c] EXCEPT !.pc = pc_, !.tx = None])

\* insert_to_sql is called with an L1 transaction; extract_l2_block
CallStep(c) ==
    /\ pg.callers[c].pc \in {"idle", "ok", "err"}
    /\ pg.calls < MaxCalls
    /\ \E number \in 0..MaxNumber, extracted \in BOOLEAN :
          LET cl == [IdleCaller EXCEPT !.pc = IF extracted THEN "select" ELSE "err",
                                       !.number = number,
                                       !.before = pg.tables]
          IN pg' = [AtCaller(c, cl) EXCEPT !.calls = @ + 1]
    /\ UNCHANGED notSql

\* the highest stored number is read from the pool and compared
SelectStep(c) ==
    /\ pg.callers[c].pc = "select"
    /\ \E fetched \in BOOLEAN :
          LET row == SelectHighestNumber(pg.tables)
              cl == [pg.callers[c] EXCEPT !.row = row,
                                          !.read_at = Len(pg.tables.blocks)]
          IN pg' = IF ~fetched THEN ReturnCall(c, "err")
                   ELSE IF IsNext(row, cl.number)
                   THEN AtCaller(c, [cl EXCEPT !.pc = "build"])
                   ELSE AtCaller(c, [cl EXCEPT !.pc = "ok"])
    /\ UNCHANGED notSql

\* filter_web3_transactions, build_web3_block and pool.begin()
BuildStep(c) ==
    /\ pg.callers[c].pc = "build"
    /\ \E built \in BOOLEAN :
          LET web3_block == BuildWeb3Block(pg.tables, pg.callers[c].number)
          IN pg' = IF ~built THEN ReturnCall(c, "err")
                   ELSE IF ~web3_block.ok THEN ReturnCall(c, "panic")
                   ELSE AtCaller(c, [pg.callers[c] EXCEPT !.pc = "insert_block",
                                                         !.tx = EmptyTables])
    /\ UNCHANGED notSql

\* what a statement of c leaves: the tables, and the transaction of c
Executed(c, t, pc_) ==
    [pg EXCEPT !.tables = t.tables,
               !.callers[c] = [pg.callers[c] EXCEPT !.pc = pc_, !.tx = t.tx]]

\* the statement of c fails and ? returns the error: the transaction is
\* dropped, which rolls it back
Failed(c, t) ==
    [pg EXCEPT !.tables = t.tables,
               !.callers[c] = [pg.callers[c] EXCEPT !.pc = "err", !.tx = None]]

\* INSERT INTO blocks
InsertBlockStep(c) ==
    /\ pg.callers[c].pc = "insert_block"
    /\ \E executed \in BOOLEAN :
          LET cl == pg.callers[c]
              t == ExecuteIn(pg.tables, cl.tx, "blocks", <<cl.number>>)
              none == [tables |-> pg.tables, tx |-> cl.tx]
          IN pg' = IF executed
                   THEN [Executed(c, t, "insert_transactions")
                            EXCEPT !.callers[c].insert_at = Some(Len(pg.tables.blocks))]
                   ELSE Failed(c, none)
    /\ UNCHANGED notSql

\* INSERT INTO transactions and INSERT INTO logs, for every transaction of the
\* block, until one of them fails
InsertTransactionsStep(c) ==
    /\ pg.callers[c].pc = "insert_transactions"
    /\ LET cl == pg.callers[c]
           txs == FilterWeb3Transactions(cl.number)
       IN \E done \in 0..Len(txs), executed \in BOOLEAN :
             LET t == InsertTransactions(pg.tables, cl.tx, txs, done)
             IN /\ executed => done = Len(txs)
                /\ pg' = IF executed THEN Executed(c, t, "commit") ELSE Failed(c, t)
    /\ UNCHANGED notSql

\* tx.commit(); a blocks table with unique numbers refuses a second row of a
\* number
CommitStep(c) ==
    /\ pg.callers[c].pc = "commit"
    /\ \E committed \in BOOLEAN :
          LET cl == pg.callers[c]
              refused == pg.unique /\ cl.number \in RowSet(pg.tables.blocks)
          IN pg' = IF committed /\ ~refused
                   THEN [ReturnCall(c, "ok") EXCEPT !.tables = Commit(pg.tables, cl.tx)]
                   ELSE ReturnCall(c, "err")
    /\ UNCHANGED notSql

NextSql ==
    \/ \E c \in DOMAIN pg.callers : CallStep(c)
    \/ \E c \in DOMAIN pg.callers : SelectStep(c)
    \/ \E c \in DOMAIN pg.callers : BuildStep(c)
    \/ \E c \in DOMAIN pg.callers : InsertBlockStep(c)
    \/ \E c \in DOMAIN pg.callers : InsertTransactionsStep(c)
    \/ \E c \in DOMAIN pg.callers : CommitStep(c)

SpecSql == InitSql /\ [][NextSql]_vars

SpecSqlConcurrent == InitSqlConcurrent /\ [][NextSql]_vars

\* ------------------------------------------------- the overlay store
InitOverlay ==
    /\ \E branch_keys \in SUBSET {1}, leaf_keys \in SUBSET {1} :
          ov = OverlayIdle(branch_keys, leaf_keys)
    /\ rv = None
    /\ cancel = "none"
    /\ sc = None
    /\ gn = None
    /\ dp = None
    /\ fee = None
    /\ pg = None
    /\ ChallengeIdle

\* a mutation of the overlay: the operation is counted and the last read
\* is forgotten
Mutated(o, leaf_keys, ref) ==
    ov' = [ov EXCEPT !.o = o, !.ops = @ + 1, !.last = None, !.leaf_keys = leaf_keys,
                     !.ref = ref]

\* the same operations on the reference store: a copy of the backing store
\* that is written directly
RefInsert(nodes, k, v) == [nodes EXCEPT ![k] = v]
RefRemove(nodes, k) == [nodes EXCEPT ![k] = NoVal]

InsertBranchStep ==
    /\ ov.ops < MaxOps
    /\ \E k \in NodeKeys, v \in NodeValues :
          Mutated(InsertBranch(ov.o, k, v), ov.leaf_keys,
                  [ov.ref EXCEPT !.branches = RefInsert(@, k, v)])
    /\ UNCHANGED notOverlay

InsertLeafStep ==
    /\ ov.ops < MaxOps
    /\ \E k \in NodeKeys, v \in NodeValues :
          Mutated(InsertLeaf(ov.o, k, v), ov.leaf_keys \cup {k},
                  [ov.ref EXCEPT !.leaves = RefInsert(@, k, v)])
    /\ UNCHANGED notOverlay

RemoveBranchStep ==
    /\ ov.ops < MaxOps
    /\ \E k \in NodeKeys :
          Mutated(RemoveBranch(ov.o, k), ov.leaf_keys,
                  [ov.ref EXCEPT !.branches = RefRemove(@, k)])
    /\ UNCHANGED notOverlay

RemoveLeafStep ==
    /\ ov.ops < MaxOps
    /\ \E k \in NodeKeys :
          Mutated(RemoveLeaf(ov.o, k), ov.leaf_keys \cup {k},
                  [ov.ref EXCEPT !.leaves = RefRemove(@, k)])
    /\ UNCHANGED notOverlay

ClearTouchedKeysStep ==
    /\ ov.ops < MaxOps
    /\ Mutated(ClearTouchedKeys(ov.o), {}, ov.ref)
    /\ UNCHANGED notOverlay

GetBranchStep ==
    /\ ov.ops < MaxOps
    /\ \E k \in NodeKeys :
          ov' = [ov EXCEPT !.ops = @ + 1,
                           !.last = Some([op |-> "get_branch", key |-> k,
                                          value |-> GetBranch(ov.o, k)])]
    /\ UNCHANGED notOverlay

GetLeafStep ==
    /\ ov.ops < MaxOps
    /\ \E k \in NodeKeys :
          ov' = [ov EXCEPT !.ops = @ + 1,
                           !.last = Some([op |-> "get_leaf", key |-> k,
                                          value |-> GetLeaf(ov.o, k)])]
    /\ UNCHANGED notOverlay

\* the overlay is abandoned and a new one is opened over the same store
DropStep ==
    /\ ov.ops < MaxOps
    /\ Mutated(OverlayStoreNew(ov.o.store), {}, ov.o.store)
    /\ UNCHANGED notOverlay

NextOverlay ==
    \/ InsertBranchStep \/ InsertLeafStep \/ RemoveBranchStep \/ RemoveLeafStep
    \/ ClearTouchedKeysStep \/ GetBranchStep \/ GetLeafStep \/ DropStep

SpecOverlay == InitOverlay /\ [][NextOverlay]_vars

\* ------------------------------------------------------------ properties
Finished == pc = "done"
Succeeded == pc = "done" /\ result = "ok"
TargetSlot == Slot(b.local_cp)
StartedSelect == pc \in {"open", "scripts", "execute", "postcheck", "postread",
                         "rollback", "reread", "compile", "verify", "emit"}

\* the block's prev-tx checkpoint of target index i, read off the block
OnChainPrev(i) ==
    IF i = 0 THEN block.prev_state_checkpoint
    ELSE block.state_checkpoint_list[block.withdrawal_count + i]

\* the block's post-tx checkpoint of target index i
OnChainPost(i) == block.state_checkpoint_list[block.withdrawal_count + i + 1]

WitnessKeys == {witness[1].kv_state[i][1] : i \in DOMAIN witness[1].kv_state}

\* C1: after a successful TxExecution build, get_raw(k) at the prev-tx
\* checkpoint through the caller's DB transaction returns, for every account
\* key k, what it returned before the build
C1_RollbackIdempotence ==
    (Succeeded /\ target.kind = "TxExecution") =>
        \A k \in Keys :
            ViewOf(store, staged, TargetSlot)[k] = h.start_view[TargetSlot][k]

C1_Witness ==
    /\ Succeeded /\ target.kind = "TxExecution"
    /\ h.applied /\ h.exec_writes # {} /\ h.rolled_back
    /\ \E k \in h.exec_writes : b.post_kv # b.prev_kv

\* C2: every exit of a TxExecution build that applied the run result leaves
\* none of the build's writes (account keys or account count) staged in the
\* DB transaction
C2_EveryExitRolledBack ==
    (Finished /\ target.kind = "TxExecution" /\ h.applied) =>
        /\ \A k \in h.exec_writes :
              staged.kv[TargetSlot][k] \in {NoVal, h.start_staged.kv[TargetSlot][k]}
        /\ staged.count[TargetSlot] \in {NoVal, h.start_staged.count[TargetSlot]}

\* C3: when the local checkpoint at the prev-tx CheckPoint differs from the
\* block's prev-tx checkpoint, the build returns an error value and no
\* witness
C3_PrevMismatchReturnsError ==
    (Finished /\ h.mismatch = "prev") => (result = "err" /\ witness = None)

ExecutionOrder ==
    <<"prev-read", "execute", "post-check", "post-read", "rollback",
      "prev-re-read", "proof-compile", "proof-verify">>

\* C4: the steps of a TxExecution build occur in the order prev-read, execute,
\* post-read (check, then values), rollback, prev-re-read, proof-compile,
\* proof-verify; a returned witness has gone through all of them, so no prev
\* value and no proof is produced before the rollback
C4_StepOrder ==
    (target.kind = "TxExecution" /\ pc # "idle") =>
        /\ Len(h.log) <= Len(ExecutionOrder)
        /\ h.log = SubSeq(ExecutionOrder, 1, Len(h.log))
        /\ Succeeded => h.log = ExecutionOrder
        /\ b.prev_kv # <<>> => h.rolled_back
        /\ b.proof.keys # {} => h.rolled_back

C4_Witness == Succeeded /\ target.kind = "TxExecution" /\ h.log = ExecutionOrder

\* C5: for every returned TxExecution or TxSignature witness W, the root that
\* W.kv_state_proof gives for W.kv_state, combined with W.account_count, is
\* the block's prev-tx checkpoint
C5_ProofSoundness ==
    (Succeeded /\ target.kind \in {"TxExecution", "TxSignature"}) =>
        LET W == witness[1] IN
            CalculateStateCheckpoint(ComputeRoot(W.kv_state_proof, W.kv_state),
                                     W.account_count) = OnChainPrev(target.index)

C5_Witness ==
    /\ Succeeded /\ target.kind = "TxSignature"
    /\ target.index > 0
    /\ Len(witness[1].kv_state) >= 3

\* C6: for every returned TxExecution witness of index i, the same proof
\* recomputed against the post values of the touched keys, with the post
\* account count, is state_checkpoint_list[withdrawal_count + i]; a
\* TxSignature build makes no post-state check
C6_PostStateProof ==
    /\ (Succeeded /\ target.kind = "TxExecution") =>
          CalculateStateCheckpoint(ComputeRoot(witness[1].kv_state_proof, b.post_kv),
                                   b.post_count) = OnChainPost(target.index)
    /\ (target.kind = "TxSignature" /\ pc # "idle") =>
          (\A i \in DOMAIN h.log : h.log[i] # "post-check") /\ h.mismatch # "post"

C6_Witness ==
    /\ Succeeded /\ target.kind = "TxExecution"
    /\ b.post_count # b.prev_count
    /\ b.post_kv # b.prev_kv

\* C7: two builds of the same target against the same store contents return
\* identical witnesses
C7_Deterministic ==
    (Succeeded /\ h.first # None) =>
        ((h.first[1].target = target /\ h.first[1].view = h.start_view)
            => witness[1] = h.first[1].witness)

\* C8: every key the executor read or wrote while executing the target
\* transaction is a key of the emitted kv_state
C8_TouchedKeysComplete ==
    (Succeeded /\ target.kind = "TxExecution") =>
        (h.exec_reads \cup h.exec_writes) \subseteq WitnessKeys

C8_Witness ==
    /\ Succeeded /\ target.kind = "TxExecution"
    /\ h.exec_reads \ h.exec_writes # {}
    /\ (h.exec_reads \ h.exec_writes) \subseteq WitnessKeys

\* C9: whatever the caller had staged in its DB transaction before
\* build_verify_context is still staged when the call has returned
C9_CallerWritesKept ==
    (Finished /\ result \in {"ok", "err"}) =>
        /\ h.start_staged.other => staged.other
        /\ \A s \in Slots :
              /\ h.start_staged.count[s] # NoVal => staged.count[s] # NoVal
              /\ \A k \in Keys :
                    h.start_staged.kv[s][k] # NoVal => staged.kv[s][k] # NoVal

\* C10: for target_index 0 the state is opened at CheckPoint(number, PrevTxs)
\* and compared with prev_state_checkpoint; for target_index i > 0 it is
\* opened at CheckPoint(number, Tx(i - 1)) and compared with
\* state_checkpoint_list[withdrawal_count + i - 1]
C10_PrevCheckpointSelection ==
    StartedSelect =>
        IF target.index = 0
        THEN /\ b.local_cp = CheckPointNew(block.number, "PrevTxs", 0)
             /\ b.block_prev = block.prev_state_checkpoint
        ELSE /\ b.local_cp = CheckPointNew(block.number, "Tx", target.index - 1)
             /\ b.block_prev =
                    block.state_checkpoint_list[block.withdrawal_count + target.index]

C10_Witness ==
    /\ pc = "scripts" /\ target.index > 0
    /\ b.block_prev # block.prev_state_checkpoint
    /\ b.block_prev # OnChainPost(target.index)

\* the number of items of the target's kind the block has
ItemCount ==
    IF target.kind = "Withdrawal" THEN block.withdrawal_count ELSE block.tx_count

\* no state view was opened, nothing was executed or rolled back, and the
\* DB transaction is as the caller left it
NothingDone ==
    /\ h.log = <<>>
    /\ h.opened = {}
    /\ ~h.applied
    /\ ~h.rolled_back
    /\ staged = h.start_staged

\* C11: a target_index the block has no item for (a withdrawal index at or
\* beyond the number of withdrawals, a transaction index at or beyond the
\* number of transactions, so every index of a block without transactions)
\* gives an error and no witness, before any state view is opened, any
\* transaction is executed and any rollback is issued
C11_OutOfRangeIndex ==
    (pc # "idle" /\ target.block_hash = block.hash /\ target.index >= ItemCount) =>
        /\ Finished
        /\ result = "err"
        /\ witness = None
        /\ NothingDone

C11_Witness ==
    /\ Finished /\ result = "err"
    /\ target.kind = "TxExecution" /\ target.block_hash = block.hash
    /\ block.tx_count = 0 /\ target.index = 0
    /\ StagedSize(staged) > 0

\* C12: a block hash the store holds no block for gives the not-found error
\* as the first effect of the build, for every target kind: no state view
\* is opened, nothing is executed, the DB transaction is not modified
C12_BlockNotFound ==
    (pc # "idle" /\ target.block_hash # block.hash) =>
        /\ Finished
        /\ result = "err"
        /\ witness = None
        /\ NothingDone

C12_Witness ==
    /\ Finished /\ result = "err"
    /\ target.kind = "Withdrawal" /\ target.block_hash = UnknownHash
    /\ staged.other

\* C13: a TxSignature build never runs the executor and never applies a run
\* result: it has no return_data_hash, it writes no account key, and the
\* account state it reads is the same at every step of the build
C13_SignatureNeverExecutes ==
    (target.kind = "TxSignature" /\ pc # "idle") =>
        /\ ~h.applied
        /\ \A i \in DOMAIN h.log : h.log[i] # "execute"
        /\ b.return_data_hash = None
        /\ Succeeded => witness[1].return_data_hash = None
        /\ \A k \in Keys :
              ViewOf(store, staged, TargetSlot)[k] = h.start_view[TargetSlot][k]

\* C14: a returned TxExecution witness carries the pre-transaction snapshot:
\* kv_state holds the values read again after the rollback, never a value
\* the execution wrote; account_count is the count read before execution;
\* scripts is [sender script, receiver script]
C14_PreTxSnapshot ==
    (Succeeded /\ target.kind = "TxExecution") =>
        LET W == witness[1]
            view == ViewOf(store, staged, TargetSlot)
            tx == Tx(target.index)
        IN /\ h.rolled_back
           /\ W.kv_state = ToKv(b.touched_keys, view)
           /\ \A i \in DOMAIN W.kv_state :
                 W.kv_state[i][1] \in h.exec_writes =>
                    W.kv_state[i][2] # b.post_kv[i][2]
           /\ W.account_count = CountOf(store, h.start_staged, TargetSlot)
           /\ W.scripts = <<GetScript(h.start_view[TargetSlot][ScriptHashKey(tx.from_id)]),
                            GetScript(h.start_view[TargetSlot][ScriptHashKey(tx.to_id)])>>

C14_Witness ==
    /\ Succeeded /\ target.kind = "TxExecution" /\ target.index = 1
    /\ witness[1].account_count # b.post_count
    /\ witness[1].kv_state # b.post_kv
    /\ witness[1].scripts[1] # witness[1].scripts[2]

\* C15: a Withdrawal build reads the withdrawer's script from a read-only
\* view at CheckPoint(block.number - 1, Block) and returns it with
\* receiver_script = none; it returns an error when that view has no such
\* script
C15_WithdrawalSenderScript ==
    (Finished /\ target.kind = "Withdrawal" /\ target.block_hash = block.hash
        /\ target.index < block.withdrawal_count) =>
        LET script == GetScriptAt(ViewOf(store, h.start_staged, PrevBlockSlot),
                                  Withdrawal(target.index).account_script_hash)
        IN /\ h.opened = {CheckPointNew(block.number - 1, "Block", 0)}
           /\ staged = h.start_staged
           /\ script # NoVal =>
                 /\ result = "ok"
                 /\ witness[1].sender_script = script
                 /\ witness[1].receiver_script = None
           /\ script = NoVal => (result = "err" /\ witness = None)

C15_Witness ==
    /\ Finished /\ target.kind = "Withdrawal" /\ result = "err"
    /\ target.block_hash = block.hash /\ target.index < block.withdrawal_count
    /\ GetScriptAt(ViewOf(store, staged, 0),
                   Withdrawal(target.index).account_script_hash) # NoVal

RevertDone == rv.pc = "done"
InputKeys == {RawBlock(rv.input[i]).hash : i \in DOMAIN rv.input}
InputNumbers(blocks) == [i \in DOMAIN blocks |-> blocks[i].number]

\* C17: post_reverted_block_root is the root the reverted-block SMT has once
\* the key of every input block is set to H256::one(), and
\* reverted_block_proof recomputed against the leaves (key, one) of the
\* input blocks gives that root
C17_PostRevertedRoot ==
    RevertDone =>
        LET ctx == rv.context[1]
            leaves == [i \in DOMAIN rv.input |-> <<RawBlock(rv.input[i]).hash, One>>]
        IN /\ ctx.post_reverted_block_root =
                 [k \in RevertedKeys |-> IF k \in InputKeys THEN One
                                         ELSE rv.start.reverted[k]]
           /\ ComputeRoot(ctx.reverted_block_proof, leaves) = ctx.post_reverted_block_root

C17_Witness ==
    /\ RevertDone /\ Len(rv.input) = 2
    /\ rv.input[1] # rv.input[2]
    /\ rv.start.reverted[ForkHash] = One
    /\ \E k \in InputKeys : rv.start.reverted[k] = Zero

C19_RevertedBlocksSorted ==
    RevertDone =>
        LET ctx == rv.context[1] IN
        /\ Len(ctx.reverted_blocks) = Len(rv.input)
        /\ Len(rv.block_hashes) = Len(rv.input)
        /\ \A i, j \in DOMAIN rv.input :
              i < j => /\ ctx.reverted_blocks[i].number <= ctx.reverted_blocks[j].number
                       /\ rv.block_hashes[i].number <= rv.block_hashes[j].number

C21_BackingStoreNeverWritten ==
    /\ ov.o.store = ov.start_store
    /\ \A k \in NodeKeys :
          /\ GetLeaf(OverlayStoreNew(ov.o.store), k) = StoreGet(ov.start_store.leaves, k)
          /\ GetBranch(OverlayStoreNew(ov.o.store), k) = StoreGet(ov.start_store.branches, k)

C21_Witness ==
    /\ ov.ops = MaxOps
    /\ \E k \in NodeKeys :
          /\ ov.o.leaves_map[k] # NoVal
          /\ ov.o.leaves_map[k] # ov.o.store.leaves[k]
    /\ \E k \in ov.o.deleted_branches : ov.o.store.branches[k] # NoVal

\* C22: a read of key k gives None when k is in the deleted set of its kind,
\* even if the backing store holds k; otherwise the overlay's own entry for
\* k when there is one; otherwise what the backing store gives for k
C22_ReadOrder ==
    ov.last # None =>
        LET r == ov.last[1]
            deleted == IF r.op = "get_leaf" THEN ov.o.deleted_leaves
                       ELSE ov.o.deleted_branches
            own == IF r.op = "get_leaf" THEN ov.o.leaves_map ELSE ov.o.branches_map
            backing == IF r.op = "get_leaf" THEN ov.start_store.leaves
                       ELSE ov.start_store.branches
        IN IF r.key \in deleted THEN r.value = None
           ELSE IF own[r.key] # NoVal THEN r.value = Some(own[r.key])
           ELSE IF backing[r.key] # NoVal THEN r.value = Some(backing[r.key])
           ELSE r.value = None

C22_Witness ==
    /\ ov.last # None
    /\ ov.last[1].op = "get_leaf"
    /\ ov.last[1].key \in ov.o.deleted_leaves
    /\ ov.o.store.leaves[ov.last[1].key] # NoVal
    /\ ov.last[1].value = None

\* C23: touched_keys is the set of keys inserted or removed as leaves since
\* the store was created or since the last clear_touched_keys; branch
\* operations and reads add nothing, and only clear_touched_keys removes a
\* key
C23_TouchedKeysAreLeafWrites == ov.o.touched_keys = ov.leaf_keys

C23_Witness ==
    /\ ov.ops = MaxOps
    /\ ov.o.touched_keys # {}
    /\ ov.o.touched_keys \subseteq ov.o.deleted_leaves
    /\ \E k \in NodeKeys : k \notin ov.o.touched_keys /\ ov.o.branches_map[k] # NoVal

\* C24: a build whose cancellation was requested before the witness
\* construction started or after the executor returned ends with Cancelled,
\* with the DB transaction rolled back and without a witness
C24_CancellationObserved ==
    (Finished /\ cancel # "none") =>
        /\ result = "cancelled"
        /\ witness = None
        /\ staged = EmptyStaged

\* ------------------------------------- properties of the contract's cells
Searched == CellsOf(sc.tx, sc.source)
StakeLocked == {i \in DOMAIN Searched : Searched[i].lock = "stake"}
WellFormed(cell) == cell.args_ok /\ cell.type_ # "other"
OwnerDiffers(cell) ==
    sc.owner_lock_hash # None /\ cell.owner # sc.owner_lock_hash[1]
PlainCkb(cell) == cell.type_ = "none" /\ cell.amount = 0

\* C25: find_stake_cell returns an error when more than one cell of the
\* searched source carries the stake lock; with one such cell it returns
\* Error::Stake when the cell's owner_lock_hash differs from the given one,
\* Error::Stake when the cell holds anything but plain CKB, and the cell
\* otherwise; it returns Ok(None) when no cell carries the stake lock
C25_FindStakeCell ==
    (sc.fn = "find_stake_cell" /\ sc.result # None
        /\ \A i \in StakeLocked : WellFormed(Searched[i])) =>
        LET r == sc.result[1] IN
        /\ Cardinality(StakeLocked) > 1 => ~r.ok
        /\ StakeLocked = {} => (r.ok /\ r.value = None)
        /\ \A i \in StakeLocked : StakeLocked = {i} =>
              IF OwnerDiffers(Searched[i]) \/ ~PlainCkb(Searched[i])
              THEN ~r.ok /\ r.error = "Stake"
              ELSE /\ r.ok /\ r.value # None
                   /\ r.value[1].index = i - 1
                   /\ r.value[1].owner = Searched[i].owner

\* ------------------------------------------------ properties of the genesis
\* the account state opened at the genesis CheckPoint
GenesisTree == gn.store.state[FromGenesis]

TxBuild == target.kind \in {"TxSignature", "TxExecution"}
KeysOf(kv) == [i \in DOMAIN kv |-> kv[i][1]]
SenderNonceKey == NonceKey(Tx(target.index).from_id)
PrevTxView == ViewOf(store, staged, Slot(b.local_cp))
SenderUnresolved == GetScript(PrevTxView[ScriptHashKey(Tx(target.index).from_id)]) = NoVal
ReceiverUnresolved == GetScript(PrevTxView[ScriptHashKey(Tx(target.index).to_id)]) = NoVal

\* C27: the (key, value) pairs of the emitted kv_state are in ascending key
\* order, the touched keys being sorted before the proof is compiled
C27_KvStateAscending ==
    (Succeeded /\ TxBuild) =>
        LET keys == KeysOf(witness[1].kv_state) IN
        \A i, j \in DOMAIN keys : i < j => keys[i] < keys[j]

\* C28: in a TxSignature and in a TxExecution build the sender's nonce key
\* is touched once tracking is enabled and before the executor is invoked,
\* and it is a key of the emitted kv_state
C28_NonceKeyTouched ==
    /\ (pc = "execute" /\ TxBuild) =>
          /\ b.tracker.enabled
          /\ SenderNonceKey \in b.tracker.keys
          /\ ~h.applied
    /\ (Succeeded /\ TxBuild) =>
          \E i \in DOMAIN witness[1].kv_state :
              witness[1].kv_state[i][1] = SenderNonceKey

C28_Witness ==
    /\ Succeeded
    /\ target.kind = "TxSignature"
    /\ h.exec_reads = {}
    /\ \E i \in DOMAIN witness[1].kv_state : witness[1].kv_state[i][1] = SenderNonceKey

\* C29: a TxSignature or TxExecution build whose sender or receiver script
\* cannot be resolved at the prev-tx checkpoint returns an error, the
\* sender's first, before the executor is invoked and before any state
\* mutation, and returns no witness
C29_UnresolvedScriptIsError ==
    /\ (TxBuild /\ pc \in {"execute", "postcheck", "postread", "rollback",
                            "reread", "compile", "verify", "emit"}) =>
          /\ b.sender_script # NoVal
          /\ b.receiver_script # NoVal
    /\ (Finished /\ TxBuild /\ "prev-read" \in KeySet(h.log)
            /\ (SenderUnresolved \/ ReceiverUnresolved)) =>
          /\ result = "err"
          /\ witness = None
          /\ h.error = IF SenderUnresolved THEN "sender script not found"
                        ELSE "receiver script not found"
          /\ ~h.applied
          /\ "execute" \notin KeySet(h.log)
          /\ staged = h.start_staged

C29_Witness ==
    /\ Finished /\ TxBuild
    /\ SenderUnresolved /\ ReceiverUnresolved
    /\ h.error = "sender script not found"

\* C30: post_kv_state and prev_kv_state list the same keys, element by
\* element: the touched-key list captured before the rollback, which holds
\* every touched key and is the list the kv_state_proof is compiled over
C30_OneKeyList ==
    /\ (TxBuild /\ pc = "rollback") =>
          /\ ~h.rolled_back
          /\ KeySet(b.touched_keys) = b.tracker.keys
    /\ (TxBuild /\ (pc \in {"verify", "emit"} \/ Succeeded)) =>
          /\ h.rolled_back
          /\ KeysOf(b.post_kv) = b.touched_keys
          /\ KeysOf(b.prev_kv) = b.touched_keys
          /\ b.proof.keys = KeySet(b.touched_keys)
          /\ KeySet(b.touched_keys) = b.tracker.keys

C30_Witness ==
    /\ Succeeded
    /\ target.kind = "TxExecution"
    /\ b.post_kv # b.prev_kv
    /\ KeysOf(b.post_kv) = KeysOf(b.prev_kv)

\* --------------------------------- the overlay store and its reference
\* C31: after any sequence of inserts and removes, every read of the
\* overlay gives what the reference store gives, the store the same
\* operations were applied to directly: the last write to a key wins
C31_ReadsAgreeWithReference ==
    \A k \in NodeKeys :
        /\ GetLeaf(ov.o, k) = StoreGet(ov.ref.leaves, k)
        /\ GetBranch(ov.o, k) = StoreGet(ov.ref.branches, k)

\* a branch the backing store holds was removed and inserted again with
\* another value, and a leaf the backing store lacks was inserted and removed
C31_Witness ==
    /\ \E k \in NodeKeys :
          /\ ov.o.store.branches[k] # NoVal
          /\ ov.o.branches_map[k] # NoVal
          /\ ov.o.branches_map[k] # ov.o.store.branches[k]
          /\ GetBranch(ov.o, k) = Some(ov.o.branches_map[k])
    /\ \E k \in ov.o.deleted_leaves :
          /\ ov.o.store.leaves[k] = NoVal
          /\ k \in ov.o.touched_keys

\* ------------------------------------------ the executor's chain view
\* C32: in a TxExecution build the chain view handed to the executor is
\* anchored at the hash of the canonical block whose number is the target
\* block's number minus one
C32_ChainViewAtParent ==
    (target.kind = "TxExecution" /\ h.applied) =>
        /\ b.chain_view # None
        /\ Some(b.chain_view[1].tip_block_hash) = GetBlockHashByNumber(block.number - 1)

\* ------------------------------------------- the values of the found cells
\* the cells a call returned: those of the Vec, or the one of the Option
ReturnedCells ==
    LET r == sc.result[1] IN
    IF ~r.ok THEN {} ELSE {r.value[i] : i \in DOMAIN r.value}

\* the SUDT value of the cell at index of the searched source
OwnValue(index) == FetchCapacityAndSudtValue(sc.tx, index, sc.source)

\* C33: every cell a function returns carries the SUDT value loaded at the
\* cell's index from the source that was searched for its lock
C33_ValueOfSearchedSource ==
    sc.result # None =>
        \A cell \in ReturnedCells :
            /\ OwnValue(cell.index).ok
            /\ cell.value.sudt_script_hash = OwnValue(cell.index).value.sudt_script_hash
            /\ cell.value.amount = OwnValue(cell.index).value.amount

\* -------------------------------------- properties of the reverted deposits
\* the custodian cells found for the reverted block hashes
FoundCustodians ==
    QueryCustodianCellsByBlockHashes(dp.live, KeySet(dp.reverted_block_hashes))

\* C34: when revert returns Some, inputs, witness_args and outputs have the
\* length of the custodian cells found; input i spends custodian cell i,
\* output i is that cell's output with only the lock replaced by the deposit
\* lock, with the cell's data, and witness i carries the hash of output i's
\* lock; revert returns None when the action is no block submission, when no
\* block hash is reverted or when no custodian cell is found
C34_RevertedDeposits ==
    dp.result # None =>
        LET r == dp.result[1] IN
        /\ (r.ok /\ r.value # None) =>
              LET d == r.value[1]
                  n == Len(FoundCustodians)
              IN /\ n > 0
                 /\ Len(d.inputs) = n /\ Len(d.witness_args) = n /\ Len(d.outputs) = n
                 /\ \A i \in 1..n :
                       LET cell == FoundCustodians[i]
                           output == d.outputs[i][1]
                       IN /\ d.inputs[i].input.previous_output = cell.out_point
                          /\ output.capacity = cell.output.capacity
                          /\ output.type_ = cell.output.type_
                          /\ d.outputs[i][2] = cell.data
                          /\ output.lock.code_hash = DepositScriptTypeHash
                          /\ output.lock.args.deposit_lock_args
                                = cell.output.lock.args.deposit_lock_args
                          /\ d.witness_args[i].lock
                                = Some([deposit_lock_hash |-> Blake2b(output.lock)])
        /\ (dp.rollup_action # "RollupSubmitBlock"
                \/ dp.reverted_block_hashes = <<>>) => r = Ok(None)
        /\ (dp.rpc_ok /\ FoundCustodians = <<>>) => r = Ok(None)

C34_Witness ==
    /\ dp.result # None
    /\ dp.result[1].ok
    /\ dp.result[1].value # None
    /\ Len(dp.result[1].value[1].outputs) = 2
    /\ Len(dp.live) > 2
    /\ \E i \in 1..2 : dp.result[1].value[1].outputs[i][1].type_ # None

\* the outputs the skeleton had when fill_tx_fee was called, and what they
\* hold; what the inputs hold
FeeInputCapacity == SumCapacity(fee.skeleton.inputs)
FeeOutputCapacity == SumCapacity(fee.skeleton.outputs)

\* C35: when fill_tx_fee returns Ok the outputs are the outputs of the call
\* and one more, the change cell; the change cell holds at least
\* CHANGE_CELL_CAPACITY, and input capacity minus output capacity is the
\* fee required for the size of the transaction with the change cell.
C35_ChangeCellPaysFee ==
    fee.pc = "ok" =>
        /\ Len(fee.skeleton.outputs) = Len(fee.outputs0) + 1
        /\ SubSeq(fee.skeleton.outputs, 1, Len(fee.outputs0)) = fee.outputs0
        /\ fee.skeleton.outputs[Len(fee.skeleton.outputs)].lock = "lock_script"
        /\ fee.skeleton.outputs[Len(fee.skeleton.outputs)].capacity >= CHANGE_CELL_CAPACITY
        /\ FeeInputCapacity - FeeOutputCapacity
             = CalculateRequiredTxFee(TxInBlockSize(fee.skeleton))

C35_Witness ==
    /\ fee.pc = "ok"
    /\ fee.rounds >= 1
    /\ fee.outputs0 # <<>>
    /\ fee.skeleton.outputs[Len(fee.skeleton.outputs)].capacity > CHANGE_CELL_CAPACITY

\* C36: when fill_tx_fee returns an error the outputs are the outputs of the
\* call.
C36_OutputsRestoredOnError ==
    fee.pc = "err" => fee.skeleton.outputs = fee.outputs0

\* what the skeleton lacks to pay the fee beside a change cell
Shortfall(f) ==
    CHANGE_CELL_CAPACITY
      + CalculateRequiredTxFee(TxInBlockSize(PushChange(f.skeleton, CHANGE_CELL_CAPACITY)))
      + SumCapacity(f.skeleton.outputs) - SumCapacity(f.skeleton.inputs)

FeeDone == fee.pc \in {"ok", "err", "panic"}

\* C37: while every query returned cells, none of them taken before, that
\* hold the required fee, no cell is an input twice and change_capacity does
\* not underflow; a round that is not the last brings the skeleton closer to
\* paying the fee, the loop ends, and it ends with required_fee 0 when
\* fill_tx_fee returns Ok.
C37_PaymentLoopTerminates ==
    /\ [](fee.provided =>
            /\ Cardinality(TakenOutpoints(fee.skeleton)) = Len(fee.skeleton.inputs)
            /\ ~fee.underflow
            /\ (fee.pc = "ok" => fee.required_fee = 0)
            /\ (fee.pc = "loop" => fee.required_fee > 0 /\ Shortfall(fee) > 0))
    /\ [][fee.pc = "loop" /\ fee'.pc = "loop" /\ fee'.provided
            => Shortfall(fee') < Shortfall(fee)]_vars
    /\ <>FeeDone

C37_Witness ==
    /\ fee.pc = "ok"
    /\ fee.rounds >= 2
    /\ fee.provided

\* the rows of a table that belong to the block of a number
RowsOf(rows, number) ==
    Cardinality({i \in DOMAIN rows : rows[i].block_number = number})

BlockRowsOf(tables, number) ==
    Cardinality({i \in DOMAIN tables.blocks : tables.blocks[i] = number})

\* the block of a number is stored whole or not at all
StoredWhole(tables, number) ==
    LET txs == FilterWeb3Transactions(number)
    IN /\ RowsOf(tables.transactions, number) = BlockRowsOf(tables, number) * Len(txs)
       /\ RowsOf(tables.logs, number)
            = BlockRowsOf(tables, number) * Len(LogRows(txs, Len(txs)))

\* the call of c has written rows
Wrote(c) == pg.tables # pg.callers[c].before

\* C38: when the calls follow one another, a call writes only when the
\* table was empty or its block's number was the highest stored number plus
\* one, and a call with another number returns Ok and writes no row; a block
\* is stored with all the rows of its transactions and logs or not at all;
\* the stored numbers are 0, 1, 2, .. without a gap.
C38_BlocksConsecutive ==
    /\ \A c \in DOMAIN pg.callers :
          LET cl == pg.callers[c]
          IN /\ Wrote(c) =>
                  /\ cl.pc = "ok"
                  /\ IsNext(SelectHighestNumber(cl.before), cl.number)
                  /\ pg.tables.blocks = Append(cl.before.blocks, cl.number)
             /\ (cl.pc = "ok" /\ ~IsNext(cl.row, cl.number)) => ~Wrote(c)
    /\ \A number \in 0..MaxNumber : StoredWhole(pg.tables, number)
    /\ pg.tables.blocks = [i \in 1..Len(pg.tables.blocks) |-> i - 1]

C38_Witness ==
    /\ Len(pg.tables.blocks) >= 2
    /\ Len(pg.tables.logs) >= 1
    /\ \E c \in DOMAIN pg.callers :
          pg.callers[c].pc = "ok" /\ pg.callers[c].row # None /\ ~Wrote(c)

\* C39: of two concurrent calls with blocks of the same number at most one
\* commits a block row of that number, and no commit of the other call
\* falls between a call's read of the highest number and its insert.
C39_OneRowPerNumber ==
    /\ \A number \in 0..MaxNumber : BlockRowsOf(pg.tables, number) <= 1
    /\ \A c, d \in DOMAIN pg.callers :
          LET cl == pg.callers[c]
          IN (c # d /\ cl.number = pg.callers[d].number /\ cl.insert_at # None)
                => cl.insert_at = Some(cl.read_at)

====
